---- MODULE Spec2Model ----
(***************************************************************************)
(* Verification model of the spec-driven code generator                    *)
(* (vladmesh/service-template): model/variant resolution, operation        *)
(* validation, the spec loader with its cross-validator, and the           *)
(* generation pipeline with its overwrite policies.                        *)
(*                                                                         *)
(* Python strings that the code concatenates or slices are sequences of    *)
(* syllables ("User" + "Create" is <<"User">> \o <<"Create">>), so that a   *)
(* concatenation or a prefix test is computed, not assumed.                *)
(***************************************************************************)
EXTENDS Integers, Sequences, FiniteSets, TLC

VARIABLES
    \* --- model specs (framework/spec/models.py) ---
    rawModels,      \* the parsed models.yaml data handed to ModelsSpec.from_yaml
    mpc,            \* "raw" | "built" | "failed"
    modelsSpec,     \* the constructed ModelsSpec (ordered dict name -> ModelSpec)
    gvf,            \* the last get_variant_fields call: model, variant, result
    schema,         \* the last to_json_schema result
    \* --- operation specs (framework/spec/operations.py) ---
    opData,         \* the YAML data of one operation handed to OperationSpec.from_yaml
    opResult,       \* the outcome of the construction
    contexts,       \* what each OperationContextBuilder entry point returned for it
    \* --- spec loader (framework/spec/loader.py) ---
    repo,           \* the specification documents under the repository root
    loadResult,     \* the outcome of the last load_specs(repo_root)
    \* --- generation pipeline (framework/generate.py, framework/generators) ---
    fs,             \* the files under the repository root: path -> text
    lastRun,        \* what the last generate_all run reported and wrote
    steps,          \* how many times each operation has run
    \* --- generated event adapter (templates/event_adapter.py.j2) ---
    sub,            \* one generated subscriber: its handler context and its run so far
    \* --- HTTP clients (shared/http_client.py, services/tg_bot/src/main.py) ---
    client,         \* one request through a retrying client: its settings and its run so far
    \* --- the generators run one by one (framework/generate.py:59-61) ---
    round,          \* the tree the round started from, who ran, who ran last, who wrote what
    \* --- type system (framework/spec/types.py) ---
    types           \* one type document, the TypeSpec parsed from it and what was rendered

modelVars == <<rawModels, mpc, modelsSpec, gvf, schema, types>>
opVars == <<opData, opResult, contexts>>
loadVars == <<repo, loadResult>>
genVars == <<fs, lastRun, steps>>
extVars == <<sub, client, round>>

vars == <<rawModels, mpc, modelsSpec, gvf, schema, opData, opResult, contexts, repo, loadResult,
          fs, lastRun, steps, sub, client, round, types>>

-----------------------------------------------------------------------------
(* Bounds *)

MaxDepth == 2       \* nesting depth of a type document
MaxValues == 3      \* values of an enum document
MaxCalls == 2       \* calls of one renderer on one TypeSpec
MaxFields == 2      \* fields per generated model
MaxVariants == 2    \* variants per generated model
MaxServices == 2    \* service directories of a repository
MaxDomains == 1     \* domain documents of a service
MaxOps == 1         \* operations of a domain document
MaxEvents == 1      \* events of events.yaml
MaxConsumes == 1    \* consumes entries of a manifest
MaxGenOps == 2      \* operations of the domain document the pipeline is run on
MaxRuns == 3        \* generate_all runs
MaxStubs == 2       \* stub_missing_methods calls
MaxEdits == 1       \* hand edits of a controller
MaxRespecs == 1     \* edits of the specification documents
MaxMessages == 3    \* messages delivered to a generated subscriber
MaxDelay == 2       \* initial_delay of a client call, in seconds
MaxRetries == 3     \* the largest max_retries a client is called with

-----------------------------------------------------------------------------
(* Python values *)

\* Python's None where a string may also stand
None == <<"None">>

\* bool(s) of an optional string
Truthy(s) == s # None /\ s # <<>>

\* an ordered dict is a sequence of entries with a key field "name"
Keys(d) == {d[i].name : i \in 1..Len(d)}
HasKey(d, k) == \E i \in 1..Len(d) : d[i].name = k
Get(d, k) == d[CHOOSE i \in 1..Len(d) : d[i].name = k]
Names(d) == [i \in 1..Len(d) |-> d[i].name]

Range(s) == {s[i] : i \in 1..Len(s)}

\* sequences over S without repetition, of length lo..hi
DistinctSeqs(S, lo, hi) ==
    {s \in UNION {[1..n -> S] : n \in lo..hi} :
        \A i, j \in 1..Len(s) : i # j => s[i] # s[j]}

\* subsets with at most one element
AtMostOne(S) == {{}} \cup {{x} : x \in S}

-----------------------------------------------------------------------------
(* Model specs: template/.framework/framework/spec/models.py *)

Create == <<"Create">>
Update == <<"Update">>
Read == <<"Read">>
User == <<"User">>

FieldNames == {"id", "telegram_id"}
Ghost == "ghost"                       \* a name that is no field of any model
Defaults == {"None", "false", "x"}     \* default: absent, a falsy value, a truthy value

\* FieldSpec as from_yaml builds it (type and numeric constraints left out:
\* no claim of the variant or required-field rules reads them)
FieldSpecs(names) ==
    [name : names, readonly : BOOLEAN, optional : BOOLEAN, default : Defaults]

\* VariantSpec: exclude and optional name lists
VariantSpecs(vname, names) ==
    [name : {vname}, exclude : AtMostOne(names), optional : AtMostOne(names)]

\* the model of the scenario in the specification
UserModel ==
    [fields |-> << [name |-> "id", readonly |-> TRUE, optional |-> FALSE, default |-> "None"],
                   [name |-> "telegram_id", readonly |-> FALSE, optional |-> FALSE, default |-> "None"],
                   [name |-> "is_admin", readonly |-> FALSE, optional |-> FALSE, default |-> "false"] >>,
     variants |-> << [name |-> Create, exclude |-> {}, optional |-> {}],
                     [name |-> Read, exclude |-> {}, optional |-> {}] >>]

FieldSeqs ==
    {s \in UNION {[1..n -> FieldSpecs(FieldNames)] : n \in 1..MaxFields} :
        \A i, j \in 1..Len(s) : i # j => s[i].name # s[j].name}

VariantSeqs ==
    LET C == VariantSpecs(Create, FieldNames \cup {Ghost})
        R == VariantSpecs(Read, FieldNames \cup {Ghost})
    IN  {s \in {<<>>} \cup {<<c>> : c \in C} \cup {<<r>> : r \in R}
                \cup {<<c, r>> : c \in C, r \in R} : Len(s) <= MaxVariants}

RawModelSpecs == [fields : FieldSeqs, variants : VariantSeqs] \cup {UserModel}

\* validate_variant_references without its loop over variant.optional
validate_variant_references_exclude_only(model) ==
    LET field_names == Keys(model.fields) IN
    \A i \in 1..Len(model.variants) : model.variants[i].exclude \subseteq field_names

\* ModelSpec.validate_variant_references
validate_variant_references(model) ==
    LET field_names == Keys(model.fields) IN
    \A i \in 1..Len(model.variants) :
        /\ model.variants[i].exclude \subseteq field_names
        /\ model.variants[i].optional \subseteq field_names

\* ModelSpec.get_readonly_fields
get_readonly_fields(model) ==
    {model.fields[i].name : i \in {j \in 1..Len(model.fields) : model.fields[j].readonly}}

\* variant_fields_from with the readonly auto-exclusion applied to every variant
RECURSIVE variant_fields_from_anyname(_, _, _, _)
variant_fields_from_anyname(model, variant, variant_name, i) ==
    IF i > Len(model.fields) THEN <<>>
    ELSE LET field == model.fields[i]
             rest == variant_fields_from_anyname(model, variant, variant_name, i + 1)
         IN  IF field.name \in variant.exclude THEN rest
             ELSE IF field.readonly THEN rest
             ELSE <<field>> \o rest

\* the loop of ModelSpec.get_variant_fields from field i on
RECURSIVE variant_fields_from(_, _, _, _)
variant_fields_from(model, variant, variant_name, i) ==
    IF i > Len(model.fields) THEN <<>>
    ELSE LET field == model.fields[i]
             rest == variant_fields_from(model, variant, variant_name, i + 1)
         IN  IF field.name \in variant.exclude THEN rest
             ELSE IF field.readonly /\ variant_name \in {Create, Update} THEN rest
             ELSE <<field>> \o rest

\* ModelSpec.get_variant_fields
get_variant_fields(model, variant_name) ==
    IF ~HasKey(model.variants, variant_name)
    THEN model.fields
    ELSE variant_fields_from(model, Get(model.variants, variant_name), variant_name, 1)

\* FieldSpec.to_json_schema: the keys the modifiers set
field_to_json_schema(field) ==
    [name |-> field.name,
     hasDefault |-> field.default # "None",
     readOnly |-> field.readonly,
     nullable |-> field.optional]

\* has_default taken as the truthiness of the default
has_default_truthy(field) == field.default \notin {"None", "false"}

\* "has_default = field.default is not None"
has_default(field) == field.default # "None"

\* required_from without the field-level optional flag
RECURSIVE required_from_variant_only(_, _, _)
required_from_variant_only(fields, optional_fields, i) ==
    IF i > Len(fields) THEN <<>>
    ELSE LET field == fields[i]
             is_variant_optional == field.name \in optional_fields
             rest == required_from_variant_only(fields, optional_fields, i + 1)
         IN  IF ~is_variant_optional /\ ~has_default(field)
             THEN <<field.name>> \o rest
             ELSE rest

\* the required list of ModelsSpec._model_to_schema from field i on
RECURSIVE required_from(_, _, _)
required_from(fields, optional_fields, i) ==
    IF i > Len(fields) THEN <<>>
    ELSE LET field == fields[i]
             is_variant_optional == field.name \in optional_fields
             is_field_optional == field.optional
             rest == required_from(fields, optional_fields, i + 1)
         IN  IF ~is_variant_optional /\ ~is_field_optional /\ ~has_default(field)
             THEN <<field.name>> \o rest
             ELSE rest

\* ModelsSpec._model_to_schema; variant_name = None for the base model
model_to_schema(model_name, model, variant_name) ==
    LET isVariant == Truthy(variant_name)
        fields == IF isVariant THEN get_variant_fields(model, variant_name) ELSE model.fields
        title == IF isVariant THEN model_name \o variant_name ELSE model_name
        optional_fields == IF isVariant THEN Get(model.variants, variant_name).optional ELSE {}
    IN  [title |-> title,
         properties |-> [i \in 1..Len(fields) |-> field_to_json_schema(fields[i])],
         required |-> required_from(fields, optional_fields, 1)]

\* the (key, schema) assignments of ModelsSpec.to_json_schema, in execution order
RECURSIVE schema_assignments(_, _)
schema_assignments(models, i) ==
    IF i > Len(models) THEN <<>>
    ELSE LET model_name == models[i].name
             model == models[i].spec
         IN  <<[key |-> model_name, value |-> model_to_schema(model_name, model, None)]>>
             \o [j \in 1..Len(model.variants) |->
                    [key |-> model_name \o model.variants[j].name,
                     value |-> model_to_schema(model_name, model, model.variants[j].name)]]
             \o schema_assignments(models, i + 1)

\* dict assignment d[k] = v
RECURSIVE assign_all(_, _, _)
assign_all(d, assignments, i) ==
    IF i > Len(assignments) THEN d
    ELSE assign_all((assignments[i].key :> assignments[i].value) @@ d, assignments, i + 1)

\* ModelsSpec.to_json_schema: the "definitions" dict
to_json_schema(models) == assign_all(<<>>, schema_assignments(models, 1), 1)

\* ModelsSpec.get_model_names
get_model_names(models) ==
    UNION {{models[i].name} \cup
           {models[i].name \o models[i].spec.variants[j].name :
                j \in 1..Len(models[i].spec.variants)} : i \in 1..Len(models)}

-----------------------------------------------------------------------------
(* Operation specs: test-sync-markers/framework/spec/operations.py *)

Methods == {"GET", "POST", "PUT", "PATCH", "DELETE"}
StatusNone == -1                      \* Python's None in "status: int | None"
Statuses == {StatusNone, 0, 200, 202}

UserCreate == <<"User", "Create">>
ListOf(name) == <<"list[">> \o name \o <<"]">>

\* an optional value: <<>> is Python's None, <<v>> is the value v
Some(v) == <<v>>
IsNone(o) == o = <<>>

RestConfigs == [method : Methods, path : {<<>>, <<"/{user_id}">>}, status : Statuses]
Channels == {None, <<"batch.requested">>}
EventsDatas == [subscribe : Channels, publish_on_success : {None, <<"user.created">>}]
ParamLists == {<<>>, <<[name |-> "user_id", type |-> "int", required |-> TRUE]>>}

\* the YAML mapping of one operation
OpDatas ==
    [name : {"create_user"},
     input : {None, UserCreate},
     output : {None, User, ListOf(User), <<"List[">> \o User \o <<"]">>,
               <<"list[">> \o User, ListOf(ListOf(User))},
     params : ParamLists,
     rest : {<<>>} \cup {Some(r) : r \in RestConfigs},
     events : {<<>>} \cup {Some(e) : e \in EventsDatas}]

\* EventsConfig.validate_at_least_one
events_validate_at_least_one(events) ==
    ~(~Truthy(events.subscribe) /\ ~Truthy(events.publish_on_success))

\* OperationSpec.validate_has_transport
validate_has_transport(op) ==
    ~(IsNone(op.rest) /\ IsNone(op.events))

\* OperationSpec.from_yaml: the nested configs are validated first, then the
\* OperationSpec validator runs; "error" names the validator that raised
OperationSpec_from_yaml(name, data) ==
    LET op == [name |-> name,
               input_model |-> data.input,
               output_model |-> data.output,
               params |-> data.params,
               rest |-> data.rest,
               events |-> data.events]
    IN  IF ~IsNone(data.events) /\ ~events_validate_at_least_one(data.events[1])
        THEN [ok |-> FALSE, error |-> "events_config", op |-> <<>>]
        ELSE IF ~validate_has_transport(op)
        THEN [ok |-> FALSE, error |-> "no_transport", op |-> <<>>]
        ELSE [ok |-> TRUE, error |-> "", op |-> Some(op)]

\* RestConfig.effective_status with "if self.status:" for "is not None"
effective_status_falsy(rest) ==
    IF rest.status # StatusNone /\ rest.status # 0 THEN rest.status
    ELSE IF rest.method = "POST" THEN 201
    ELSE IF rest.method = "DELETE" THEN 204
    ELSE 200

\* RestConfig.effective_status
effective_status(rest) ==
    IF rest.status # StatusNone THEN rest.status
    ELSE IF rest.method = "POST" THEN 201
    ELSE IF rest.method = "DELETE" THEN 204
    ELSE 200

-----------------------------------------------------------------------------
(* Spec loader: framework/spec/loader.py, framework/spec/events.py *)

GhostModel == <<"Ghost">>              \* a model name no models.yaml defines

\* the documents, named as the loader names them in its errors
DocModels == <<"shared", "spec", "models.yaml">>
DocEvents == <<"shared", "spec", "events.yaml">>
DocDomain(service_name, stem) == <<"services", service_name, "spec", stem>>
DocManifest(service_name) == <<"services", service_name, "spec", "manifest.yaml">>
NoDoc == <<>>                          \* SpecValidationError without file_path

\* the key of AllSpecs.domains: f"{service_name}/{stem}"
DomainKey(service_name, stem) == <<service_name, "/", stem>>

\* one error: the document, the kind of message, the item and the reference it names
Err(doc, kind, at, ref) == [doc |-> doc, kind |-> kind, at |-> at, ref |-> ref]

\* extract_base_model
extract_base_model(model_ref) ==
    IF Len(model_ref) >= 1 /\ model_ref[1] = "list[" /\ model_ref[Len(model_ref)] = "]"
    THEN SubSeq(model_ref, 2, Len(model_ref) - 1)
    ELSE IF Len(model_ref) >= 1 /\ model_ref[1] = "List[" /\ model_ref[Len(model_ref)] = "]"
    THEN SubSeq(model_ref, 2, Len(model_ref) - 1)
    ELSE model_ref

\* ModelSpec.from_yaml with its validator
ModelSpec_valid(model) == Len(model.fields) > 0 /\ validate_variant_references(model)

\* load_models: ModelsSpec.from_yaml; the first failure is raised
load_models(data) ==
    IF Len(data) = 0
    THEN [ok |-> FALSE, errors |-> <<Err(DocModels, "no_models", <<>>, <<>>)>>, value |-> <<>>]
    ELSE IF \E i \in 1..Len(data) : ~ModelSpec_valid(data[i].spec)
    THEN LET i == CHOOSE k \in 1..Len(data) :
                    /\ ~ModelSpec_valid(data[k].spec)
                    /\ \A j \in 1..(k - 1) : ModelSpec_valid(data[j].spec)
         IN  [ok |-> FALSE, errors |-> <<Err(DocModels, "invalid_model", data[i].name, <<>>)>>,
              value |-> <<>>]
    ELSE [ok |-> TRUE, errors |-> <<>>, value |-> data]

\* EventSpec.validate_at_least_one_direction
validate_at_least_one_direction(event) == ~(~event.publish /\ ~event.subscribe)

\* load_events: a missing file is an empty EventsSpec; EventsSpec.from_yaml
\* raises at the first invalid event
load_events(file) ==
    IF IsNone(file) THEN [ok |-> TRUE, errors |-> <<>>, value |-> <<>>]
    ELSE LET data == file[1] IN
         IF \E i \in 1..Len(data) : ~validate_at_least_one_direction(data[i])
         THEN LET i == CHOOSE k \in 1..Len(data) :
                         /\ ~validate_at_least_one_direction(data[k])
                         /\ \A j \in 1..(k - 1) : validate_at_least_one_direction(data[j])
              IN  [ok |-> FALSE, errors |-> <<Err(DocEvents, "no_direction", <<data[i].name>>, <<>>)>>,
                   value |-> <<>>]
         ELSE [ok |-> TRUE, errors |-> <<>>, value |-> data]

\* the operations loop of DomainSpec.from_yaml from operation i on
RECURSIVE domain_operations_from(_, _)
domain_operations_from(opsData, i) ==
    IF i > Len(opsData) THEN [ok |-> TRUE, error |-> "", at |-> "", ops |-> <<>>]
    ELSE LET r == OperationSpec_from_yaml(opsData[i].name, opsData[i]) IN
         IF ~r.ok THEN [ok |-> FALSE, error |-> r.error, at |-> opsData[i].name, ops |-> <<>>]
         ELSE LET rest == domain_operations_from(opsData, i + 1) IN
              IF ~rest.ok THEN rest
              ELSE [ok |-> TRUE, error |-> "", at |-> "", ops |-> <<r.op[1]>> \o rest.ops]

\* load_domain: DomainSpec.from_yaml(stem, data)
load_domain(service_name, file) ==
    LET r == domain_operations_from(file.operations, 1) IN
    IF ~r.ok
    THEN [ok |-> FALSE,
          errors |-> <<Err(DocDomain(service_name, file.name), r.error, <<r.at>>, <<>>)>>,
          value |-> <<>>]
    ELSE [ok |-> TRUE, errors |-> <<>>,
          value |-> <<[name |-> file.name, operations |-> r.ops]>>]

\* ConsumeSpec.model_validate: service is a required key
ConsumeSpec_valid(consume) == ~IsNone(consume.service)

\* load_manifest: ServiceManifest.from_yaml(service_name, data)
load_manifest(service_name, data) ==
    IF \E i \in 1..Len(data.consumes) : ~ConsumeSpec_valid(data.consumes[i])
    THEN [ok |-> FALSE,
          errors |-> <<Err(DocManifest(service_name), "invalid_consume", <<service_name>>, <<>>)>>,
          value |-> <<>>]
    ELSE [ok |-> TRUE, errors |-> <<>>,
          value |-> <<[service |-> service_name,
                       consumes |-> [i \in 1..Len(data.consumes) |->
                            [service |-> data.consumes[i].service[1],
                             domain |-> data.consumes[i].domain,
                             operations |-> data.consumes[i].operations]]]>>]

\* the domain loop of _load_service_specs for one service, from file j on
RECURSIVE load_domains_from(_, _, _)
load_domains_from(service_name, files, j) ==
    IF j > Len(files) THEN [ok |-> TRUE, errors |-> <<>>, value |-> <<>>]
    ELSE LET r == load_domain(service_name, files[j]) IN
         IF ~r.ok THEN r
         ELSE LET rest == load_domains_from(service_name, files, j + 1) IN
              IF ~rest.ok THEN rest
              ELSE [ok |-> TRUE, errors |-> <<>>,
                    value |-> <<[name |-> DomainKey(service_name, files[j].name),
                                 spec |-> r.value[1]]>> \o rest.value]

\* _load_service_specs from service directory i on: the domains of a service,
\* then its manifest, then the next service; the first failure is raised
RECURSIVE load_service_specs_from(_, _)
load_service_specs_from(services, i) ==
    IF i > Len(services)
    THEN [ok |-> TRUE, errors |-> <<>>, domains |-> <<>>, manifests |-> <<>>]
    ELSE LET dir == services[i]
             d == load_domains_from(dir.name, dir.domains, 1)
         IN  IF ~d.ok
             THEN [ok |-> FALSE, errors |-> d.errors, domains |-> <<>>, manifests |-> <<>>]
             ELSE LET m == IF IsNone(dir.manifest)
                           THEN [ok |-> TRUE, errors |-> <<>>, value |-> <<>>]
                           ELSE load_manifest(dir.name, dir.manifest[1])
                  IN  IF ~m.ok
                      THEN [ok |-> FALSE, errors |-> m.errors, domains |-> <<>>, manifests |-> <<>>]
                      ELSE LET rest == load_service_specs_from(services, i + 1) IN
                           IF ~rest.ok THEN rest
                           ELSE [ok |-> TRUE, errors |-> <<>>,
                                 domains |-> d.value \o rest.domains,
                                 manifests |->
                                    [k \in 1..Len(m.value) |->
                                        [name |-> dir.name, spec |-> m.value[k]]]
                                    \o rest.manifests]

\* concatenation of a sequence of sequences
RECURSIVE Flatten(_)
Flatten(ss) == IF ss = <<>> THEN <<>> ELSE Head(ss) \o Flatten(Tail(ss))

\* the errors validate_model_references appends for one operation
operation_reference_errors(known_models, domain_key, op) ==
    (IF Truthy(op.input_model) /\ extract_base_model(op.input_model) \notin known_models
     THEN <<Err(NoDoc, "unknown_input", domain_key \o <<op.name>>, op.input_model)>>
     ELSE <<>>)
    \o
    (IF Truthy(op.output_model) /\ extract_base_model(op.output_model) \notin known_models
     THEN <<Err(NoDoc, "unknown_output", domain_key \o <<op.name>>, op.output_model)>>
     ELSE <<>>)

\* validate_model_references
validate_model_references(models, domains, events) ==
    LET known_models == get_model_names(models) IN
    Flatten([d \in 1..Len(domains) |->
                Flatten([o \in 1..Len(domains[d].spec.operations) |->
                    operation_reference_errors(known_models, domains[d].name,
                                               domains[d].spec.operations[o])])])
    \o
    Flatten([e \in 1..Len(events) |->
                IF Truthy(events[e].message) /\ events[e].message \notin known_models
                THEN <<Err(NoDoc, "unknown_message", <<events[e].name>>, events[e].message)>>
                ELSE <<>>])

\* the errors validate_consume_references appends for one consumes entry
consume_reference_errors(service_name, consume, domains) ==
    LET domain_key == DomainKey(consume.service, consume.domain) IN
    IF ~HasKey(domains, domain_key)
    THEN <<Err(NoDoc, "unknown_domain", <<service_name>>, domain_key)>>
    ELSE LET domain_op_names == Keys(Get(domains, domain_key).spec.operations) IN
         Flatten([k \in 1..Len(consume.operations) |->
                    IF consume.operations[k] \notin domain_op_names
                    THEN <<Err(NoDoc, "unknown_operation", <<service_name>>,
                               domain_key \o <<consume.operations[k]>>)>>
                    ELSE <<>>])

\* validate_consume_references
validate_consume_references(manifests, domains) ==
    Flatten([m \in 1..Len(manifests) |->
                Flatten([c \in 1..Len(manifests[m].spec.consumes) |->
                    consume_reference_errors(manifests[m].name,
                                             manifests[m].spec.consumes[c], domains)])])

NoSpecs == [models |-> <<>>, events |-> <<>>, domains |-> <<>>, manifests |-> <<>>]

Failed(errors, stages) ==
    [done |-> TRUE, ok |-> FALSE, errors |-> errors, specs |-> NoSpecs, stages |-> stages]

\* load_specs(repo_root): the stages entered, then AllSpecs or the raised error
load_specs(r) ==
    IF IsNone(r.models)
    THEN Failed(<<Err(DocModels, "not_found", <<>>, <<>>)>>, <<"models">>)
    ELSE LET models == load_models(r.models[1]) IN
    IF ~models.ok THEN Failed(models.errors, <<"models">>)
    ELSE LET events == load_events(r.events) IN
    IF ~events.ok THEN Failed(events.errors, <<"models", "events">>)
    ELSE LET services == load_service_specs_from(r.services, 1) IN
    IF ~services.ok THEN Failed(services.errors, <<"models", "events", "services">>)
    ELSE LET reference_errors ==
                validate_model_references(models.value, services.domains, events.value) IN
    IF reference_errors # <<>>
    THEN Failed(reference_errors, <<"models", "events", "services", "model_references">>)
    ELSE LET consume_errors == validate_consume_references(services.manifests, services.domains) IN
    IF consume_errors # <<>>
    THEN Failed(consume_errors,
                <<"models", "events", "services", "model_references", "consume_references">>)
    ELSE [done |-> TRUE, ok |-> TRUE, errors |-> <<>>,
          specs |-> [models |-> models.value, events |-> events.value,
                     domains |-> services.domains, manifests |-> services.manifests],
          stages |-> <<"models", "events", "services", "model_references",
                       "consume_references", "return">>]

\* the steps of load_specs in the order of its statements
Stages == <<"models", "events", "services", "model_references", "consume_references">>

\* the values load_specs holds once the step that assigns them has run
loaded_models(r) == IF IsNone(r.models) THEN <<>> ELSE load_models(r.models[1]).value
loaded_events(r) == load_events(r.events).value
loaded_services(r) == load_service_specs_from(r.services, 1)

\* the errors with which one step of load_specs raises, <<>> when it does not
stage_errors(r, stage) ==
    CASE stage = "models" ->
            IF IsNone(r.models) THEN <<Err(DocModels, "not_found", <<>>, <<>>)>>
            ELSE load_models(r.models[1]).errors
      [] stage = "events" -> load_events(r.events).errors
      [] stage = "services" -> loaded_services(r).errors
      [] stage = "model_references" ->
            validate_model_references(loaded_models(r), loaded_services(r).domains,
                                      loaded_events(r))
      [] stage = "consume_references" ->
            validate_consume_references(loaded_services(r).manifests, loaded_services(r).domains)

\* a step whose "raise SpecValidationError" is left out: the load goes on
after_stage_unraised(result, stage, errors) == [result EXCEPT !.stages = Append(@, stage)]

\* load_specs once a step has run: its raise ends the call
after_stage(result, stage, errors) ==
    IF errors # <<>> THEN Failed(errors, Append(result.stages, stage))
    ELSE [result EXCEPT !.stages = Append(@, stage)]

\* "return AllSpecs(models=models, events=events, domains=domains, manifests=manifests)"
return_all_specs(r, result) ==
    [done |-> TRUE, ok |-> TRUE, errors |-> <<>>,
     specs |-> [models |-> loaded_models(r), events |-> loaded_events(r),
                domains |-> loaded_services(r).domains,
                manifests |-> loaded_services(r).manifests],
     stages |-> Append(result.stages, "return")]

\* validate_specs_cli(repo_root): (success, the head of the message)
validate_specs_cli(r) ==
    IF load_specs(r).ok
    THEN [success |-> TRUE, message |-> "Spec validation PASSED."]
    ELSE [success |-> FALSE, message |-> "Spec validation FAILED:"]

-----------------------------------------------------------------------------
(* The repositories the loader is run on *)

ServiceNames == {"backend", "worker"}
DomainNames == {"users"}

\* models.yaml candidates: User with variant Create; a variant naming no field
ValidUserSpec ==
    [fields |-> <<[name |-> "id", readonly |-> TRUE, optional |-> FALSE, default |-> "None"]>>,
     variants |-> <<[name |-> Create, exclude |-> {}, optional |-> {}]>>]
GhostVariantSpec ==
    [fields |-> <<[name |-> "id", readonly |-> TRUE, optional |-> FALSE, default |-> "None"]>>,
     variants |-> <<[name |-> Create, exclude |-> {Ghost}, optional |-> {}]>>]

ValidModelsFile == Some(<<[name |-> User, spec |-> ValidUserSpec]>>)

ModelsFiles ==
    {<<>>, Some(<<>>), ValidModelsFile, Some(<<[name |-> User, spec |-> GhostVariantSpec]>>)}

\* events.yaml entries; message is "" when the key is absent (events.py:58)
EventDatas ==
    {[name |-> "user_created", message |-> User, publish |-> TRUE, subscribe |-> FALSE],
     [name |-> "job_done", message |-> GhostModel, publish |-> TRUE, subscribe |-> TRUE],
     [name |-> "ping", message |-> <<>>, publish |-> TRUE, subscribe |-> FALSE],
     [name |-> "mute", message |-> User, publish |-> FALSE, subscribe |-> FALSE]}

EventsFiles == {<<>>} \cup {Some(es) : es \in DistinctSeqs(EventDatas, 0, MaxEvents)}

NoRest == <<>>
NoEvents == <<>>
Rest(method) == Some([method |-> method, path |-> <<>>, status |-> StatusNone])

\* operations of a domain document
OpCreateUser ==
    [name |-> "create_user", input |-> UserCreate, output |-> User, params |-> <<>>,
     rest |-> Rest("POST"), events |-> NoEvents]
OpListUsers ==
    [name |-> "list_users", input |-> None, output |-> ListOf(User), params |-> <<>>,
     rest |-> Rest("GET"), events |-> NoEvents]
OpGhostOutput ==
    [name |-> "get_user", input |-> None, output |-> GhostModel, params |-> <<>>,
     rest |-> Rest("GET"), events |-> NoEvents]
OpGhostBoth ==
    [name |-> "import_users", input |-> GhostModel, output |-> ListOf(GhostModel), params |-> <<>>,
     rest |-> NoRest,
     events |-> Some([subscribe |-> <<"batch.requested">>, publish_on_success |-> None])]
OpOrphan ==
    [name |-> "orphan_op", input |-> User, output |-> None, params |-> <<>>,
     rest |-> NoRest, events |-> NoEvents]
OpSubscribe ==
    [name |-> "process_batch", input |-> UserCreate, output |-> None, params |-> <<>>,
     rest |-> NoRest,
     events |-> Some([subscribe |-> <<"batch.requested">>, publish_on_success |-> <<"user.created">>])]

LoaderOps == {OpCreateUser, OpListUsers, OpGhostOutput, OpGhostBoth, OpOrphan, OpSubscribe}

DomainFiles(ops) == [name : DomainNames, operations : DistinctSeqs(ops, 0, MaxOps)]

\* consumes entries of a manifest; service <<>> is an entry without the key
ConsumeDatas ==
    {[service |-> Some("backend"), domain |-> "users", operations |-> <<>>],
     [service |-> Some("backend"), domain |-> "users", operations |-> <<"create_user">>],
     [service |-> Some("backend"), domain |-> "users", operations |-> <<"ghost_op">>],
     [service |-> Some("backend"), domain |-> "jobs", operations |-> <<>>],
     [service |-> <<>>, domain |-> "users", operations |-> <<>>]}

ManifestFiles ==
    {<<>>} \cup {Some([consumes |-> cs]) : cs \in DistinctSeqs(ConsumeDatas, 0, MaxConsumes)}

\* the spec directory of one service: *.yaml in glob order, and manifest.yaml
ServiceDirs(ops) ==
    [name : ServiceNames,
     domains : {docs \in UNION {[1..n -> DomainFiles(ops)] : n \in 0..MaxDomains} :
                    \A i, j \in 1..Len(docs) : i # j => docs[i].name # docs[j].name},
     manifest : ManifestFiles]

\* services/ in iterdir order
ServiceTrees(ops) ==
    {ds \in UNION {[1..n -> ServiceDirs(ops)] : n \in 0..MaxServices} :
        \A i, j \in 1..Len(ds) : i # j => ds[i].name # ds[j].name}

Repos == [models : ModelsFiles, events : EventsFiles, services : ServiceTrees(LoaderOps)]

-----------------------------------------------------------------------------
(* Generated text and the file tree under the repository root *)

\* text is a sequence of tokens; a line ends with the token NL
Tok(k, n, a, r, s) == [k |-> k, n |-> n, a |-> a, r |-> r, s |-> s]
NL == Tok("nl", <<>>, <<>>, <<>>, {})
GeneratedHeader == Tok("header", <<>>, <<>>, <<>>, {})

\* str.rstrip()
RECURSIVE Rstrip(_)
Rstrip(text) ==
    IF text = <<>> THEN <<>>
    ELSE IF text[Len(text)].k = "nl" THEN Rstrip(SubSeq(text, 1, Len(text) - 1))
    ELSE text

\* Path.exists(), Path.write_text()
Exists(files, path) == path \in DOMAIN files
WriteText(files, path, text) ==
    [p \in DOMAIN files \cup {path} |-> IF p = path THEN text ELSE files[p]]

\* BaseGenerator.write_file(path, content, add_header=True)
write_file(files, path, content, add_header) ==
    WriteText(files, path, (IF add_header THEN <<GeneratedHeader, NL>> ELSE <<>>) \o content)

\* BaseGenerator.format_file(path): the formatter ends the file with one newline
format_file(files, path) == WriteText(files, path, Rstrip(files[path]) \o <<NL>>)

SchemasPath == <<"shared", "shared", "generated", "schemas.py">>
EventsPath == <<"shared", "shared", "generated", "events.py">>
ProtocolsPath(service_name) == <<"services", service_name, "src", "generated", "protocols.py">>
EventAdapterPath(service_name) ==
    <<"services", service_name, "src", "generated", "event_adapter.py">>
ControllerPath(service_name, module_name) ==
    <<"services", service_name, "src", "controllers", module_name, ".py">>

\* str.capitalize()
Capitalize(name) ==
    CASE name = "users" -> "Users"
      [] name = "jobs" -> "Jobs"
      [] OTHER -> name

\* f"{module_name.capitalize()}ControllerProtocol"
ProtocolName(module_name) == <<Capitalize(module_name), "Controller", "Protocol">>

\* the first occurrences of a sequence, in order
RECURSIVE Dedup(_)
Dedup(seq) ==
    IF seq = <<>> THEN <<>>
    ELSE LET init == Dedup(SubSeq(seq, 1, Len(seq) - 1))
             last == seq[Len(seq)]
         IN  IF last \in Range(init) THEN init ELSE Append(init, last)

-----------------------------------------------------------------------------
(* Operation context: framework/generators/context.py *)

StartsWith(s, prefix) == Len(s) >= 1 /\ s[1] = prefix
EndsWith(s, suffix) == Len(s) >= 1 /\ s[Len(s)] = suffix

\* OperationSpec.response_many
response_many(op) ==
    IF ~Truthy(op.output_model) THEN FALSE
    ELSE StartsWith(op.output_model, "list[") \/ StartsWith(op.output_model, "List[")

\* OperationSpec.base_output_model
base_output_model(op) ==
    IF ~Truthy(op.output_model) THEN None
    ELSE IF StartsWith(op.output_model, "list[") /\ EndsWith(op.output_model, "]")
    THEN SubSeq(op.output_model, 2, Len(op.output_model) - 1)
    ELSE IF StartsWith(op.output_model, "List[") /\ EndsWith(op.output_model, "]")
    THEN SubSeq(op.output_model, 2, Len(op.output_model) - 1)
    ELSE op.output_model

\* OperationSpec.return_type
return_type(op) == IF Truthy(op.output_model) THEN op.output_model ELSE None

\* OperationContextBuilder.build that collects the imports only for a transport
build_transport_imports(operation, include_rest, include_events) ==
    LET with_rest == include_rest /\ ~IsNone(operation.rest)
        with_events == include_events /\ ~IsNone(operation.events)
    IN  [name |-> operation.name,
         params |-> [i \in 1..Len(operation.params) |->
                        [name |-> operation.params[i].name,
                         type |-> operation.params[i].type,
                         required |-> operation.params[i].required,
                         source |-> IF with_rest THEN "Path(...)" ELSE "None"]],
         input_model |-> operation.input_model,
         output_model |-> base_output_model(operation),
         return_type |-> return_type(operation),
         imports |-> IF with_rest \/ with_events
                     THEN (IF Truthy(operation.input_model) THEN {operation.input_model} ELSE {})
                          \cup (IF Truthy(base_output_model(operation))
                                THEN {base_output_model(operation)} ELSE {})
                     ELSE {},
         response_many |-> response_many(operation),
         http_method |-> IF with_rest THEN operation.rest[1].method ELSE "None",
         path |-> IF with_rest THEN operation.rest[1].path ELSE None,
         status_code |-> IF with_rest THEN effective_status(operation.rest[1]) ELSE StatusNone,
         subscribe_channel |-> IF with_events THEN operation.events[1].subscribe ELSE None,
         publish_channel |-> IF with_events THEN operation.events[1].publish_on_success ELSE None]

\* OperationContextBuilder.build
build(operation, include_rest, include_events) ==
    LET imports == (IF Truthy(operation.input_model) THEN {operation.input_model} ELSE {})
                   \cup (IF Truthy(base_output_model(operation))
                         THEN {base_output_model(operation)} ELSE {})
        with_rest == include_rest /\ ~IsNone(operation.rest)
        with_events == include_events /\ ~IsNone(operation.events)
        params == [i \in 1..Len(operation.params) |->
                      [name |-> operation.params[i].name,
                       type |-> operation.params[i].type,
                       required |-> operation.params[i].required,
                       source |-> IF with_rest THEN "Path(...)" ELSE "None"]]
    IN  [name |-> operation.name,
         params |-> params,
         input_model |-> operation.input_model,
         output_model |-> base_output_model(operation),
         return_type |-> return_type(operation),
         imports |-> imports,
         response_many |-> response_many(operation),
         http_method |-> IF with_rest THEN operation.rest[1].method ELSE "None",
         path |-> IF with_rest THEN operation.rest[1].path ELSE None,
         status_code |-> IF with_rest THEN effective_status(operation.rest[1]) ELSE StatusNone,
         subscribe_channel |-> IF with_events THEN operation.events[1].subscribe ELSE None,
         publish_channel |-> IF with_events THEN operation.events[1].publish_on_success ELSE None]

\* "raise ValueError(msg)": the call returns no context
ValueError(msg) == [raised |-> TRUE, msg |-> msg]
Raised(result) == "raised" \in DOMAIN result

\* OperationContextBuilder.build_for_protocol
build_for_protocol(operation) == build(operation, FALSE, FALSE)

\* OperationContextBuilder.build_for_rest with the guard left out
build_for_rest_unguarded(operation) == build(operation, TRUE, FALSE)

\* OperationContextBuilder.build_for_rest
build_for_rest(operation) ==
    IF IsNone(operation.rest)
    THEN ValueError(<<"Operation '", operation.name, "' has no REST transport configured">>)
    ELSE build(operation, TRUE, FALSE)

\* OperationContextBuilder.build_for_events
build_for_events(operation) ==
    IF IsNone(operation.events)
    THEN ValueError(<<"Operation '", operation.name, "' has no Events transport configured">>)
    ELSE build(operation, FALSE, TRUE)

\* OperationContext.computed_return_type
computed_return_type(ctx) ==
    IF ~Truthy(ctx.output_model) THEN None
    ELSE IF ctx.response_many THEN ListOf(ctx.output_model)
    ELSE ctx.output_model

-----------------------------------------------------------------------------
(* Generators: framework/generators/*.py *)

\* [f(x) for x in seq]
Map(seq, F(_)) == [i \in 1..Len(seq) |-> F(seq[i])]

\* what generate() has done so far: the file tree and the paths it reports
Done(files) == [fs |-> files, generated |-> <<>>]
\* "generated.append(output_file)" ahead of what the rest of the loop does
Prepend(output_file, rest) == [fs |-> rest.fs, generated |-> <<output_file>> \o rest.generated]

\* domain_key.split("/")
ServiceOf(domain_key) == domain_key[1]
ModuleOf(domain_key) == domain_key[3]

\* the parameters of a rendered method: the declared ones, then the request body
MethodParams(params, request_model) ==
    [i \in 1..Len(params) |-> <<params[i].name, ":", params[i].type>>]
    \o (IF Truthy(request_model) THEN <<(<<"data", ":">> \o request_model)>> ELSE <<>>)

\* "[{"name": p.name, "type": p.type} for p in ctx.params]"
NameAndType(p) == [name |-> p.name, type |-> p.type]

\* handler_ctx of ControllersGenerator._generate_controller
handler_context(ctx) ==
    [name |-> ctx.name,
     params |-> Map(ctx.params, NameAndType),
     request_model |-> ctx.input_model,
     response_model |-> ctx.output_model,
     return_type |-> computed_return_type(ctx)]

protocol_context(operation) == handler_context(build_for_protocol(operation))

\* the handlers list of ControllersGenerator._generate_controller
handler_contexts(operations) == Map(operations, protocol_context)

\* the imports set of ControllersGenerator._generate_controller
handler_imports(operations) ==
    UNION {build_for_protocol(operations[i]).imports : i \in 1..Len(operations)}

\* one stub method of controller.py.j2
render_handler(h) ==
    <<Tok("async_def", <<h.name>>, MethodParams(h.params, h.request_model), h.return_type, {}),
      NL,
      Tok("raise_not_implemented", <<h.name>>, <<>>, <<>>, {}), NL>>

\* controller.py.j2: the imports, the class, one stub method per handler
render_controller(context) ==
    <<Tok("import", <<>>, <<>>, <<>>, context.imports), NL,
      Tok("class", <<Capitalize(context.module_name), "Controller">>,
          <<context.protocol_name>>, <<>>, {}), NL>>
    \o Flatten(Map(context.handlers, render_handler))

\* the template context of ControllersGenerator._generate_controller
controller_context(domain, module_name) ==
    [module_name |-> module_name,
     protocol_name |-> ProtocolName(module_name),
     handlers |-> handler_contexts(domain.operations),
     imports |-> handler_imports(domain.operations),
     async_handlers |-> TRUE]

\* ControllersGenerator._generate_controller
generate_controller(files, domain, module_name, output_file) ==
    format_file(write_file(files, output_file,
                           render_controller(controller_context(domain, module_name)), FALSE),
                output_file)

\* output_file of ControllersGenerator.generate
ControllerFile(domain_key) == ControllerPath(ServiceOf(domain_key), ModuleOf(domain_key))

\* the loop of ControllersGenerator.generate from domain i on, writing over files
RECURSIVE controllers_generate_overwriting(_, _, _)
controllers_generate_overwriting(domains, files, i) ==
    IF i > Len(domains) THEN Done(files)
    ELSE Prepend(ControllerFile(domains[i].name),
                 controllers_generate_overwriting(
                    domains,
                    generate_controller(files, domains[i].spec, ModuleOf(domains[i].name),
                                        ControllerFile(domains[i].name)),
                    i + 1))

\* the loop of ControllersGenerator.generate from domain i on
RECURSIVE controllers_generate_from(_, _, _)
controllers_generate_from(domains, files, i) ==
    IF i > Len(domains) THEN Done(files)
    ELSE IF Exists(files, ControllerFile(domains[i].name))
    THEN controllers_generate_from(domains, files, i + 1)
    ELSE Prepend(ControllerFile(domains[i].name),
                 controllers_generate_from(
                    domains,
                    generate_controller(files, domains[i].spec, ModuleOf(domains[i].name),
                                        ControllerFile(domains[i].name)),
                    i + 1))

\* ControllersGenerator.generate
ControllersGenerator_generate(specs, files) == controllers_generate_from(specs.domains, files, 1)

\* datamodel-codegen: one class per schema definition
datamodel_codegen(json_schema) ==
    <<Tok("classes", <<>>, <<>>, <<>>,
          {key \o <<":">> \o json_schema[key].title \o <<"(">>
               \o json_schema[key].required \o <<")">> : key \in DOMAIN json_schema}), NL>>

\* "Read generated content and write back with header"
write_back(output) ==
    format_file(write_file(output, SchemasPath, output[SchemasPath], TRUE), SchemasPath)

\* SchemasGenerator.generate
SchemasGenerator_generate(specs, files) ==
    [fs |-> write_back(WriteText(files, SchemasPath,
                                 datamodel_codegen(to_json_schema(specs.models)))),
     generated |-> <<SchemasPath>>]

\* the services of the domains, in the order their first domain is met
DomainService(d) == ServiceOf(d.name)
ServicesOf(domains) == Dedup(Map(domains, DomainService))
DomainsOfService(domains, service_name) ==
    SelectSeq(domains, LAMBDA d : ServiceOf(d.name) = service_name)

\* response_model and return_type of ProtocolsGenerator.generate
protocol_response(model, many) ==
    IF ~Truthy(model) THEN None ELSE IF many THEN ListOf(model) ELSE model

\* handler_ctx of ProtocolsGenerator.generate
protocol_handler(handler) ==
    [name |-> handler.name,
     params |-> Map(handler.params, NameAndType),
     request_model |-> IF Truthy(handler.input_model) THEN handler.input_model ELSE None,
     response_model |-> protocol_response(base_output_model(handler), response_many(handler)),
     return_type |-> protocol_response(base_output_model(handler), response_many(handler))]

\* what one handler adds to services_imports[service_name]
protocol_handler_imports(handler) ==
    (IF Truthy(handler.input_model) THEN {handler.input_model} ELSE {})
    \cup (IF Truthy(base_output_model(handler)) THEN {base_output_model(handler)} ELSE {})

\* the entry ProtocolsGenerator.generate appends to services_routers[service_name]
protocol_router(d) ==
    [name |-> ModuleOf(d.name),
     protocol_name |-> ProtocolName(ModuleOf(d.name)),
     handlers |-> Map(d.spec.operations, protocol_handler)]

\* services_imports[service_name] of ProtocolsGenerator.generate
protocol_imports(mine) ==
    UNION {UNION {protocol_handler_imports(mine[d].spec.operations[i]) :
                    i \in 1..Len(mine[d].spec.operations)} : d \in 1..Len(mine)}

\* one method of a Protocol class of protocols.py.j2
render_protocol_method(h) ==
    <<Tok("async_def", <<h.name>>, MethodParams(h.params, h.request_model), h.return_type, {}),
      NL>>

render_protocol(router) ==
    <<Tok("class", router.protocol_name, <<>>, <<>>, {}), NL>>
    \o Flatten(Map(router.handlers, render_protocol_method))

\* protocols.py.j2: the imports, then one Protocol class per router
render_protocols(routers, imports) ==
    <<Tok("import", <<>>, <<>>, <<>>, imports), NL>> \o Flatten(Map(routers, render_protocol))

\* template.render(routers=routers_context, imports=services_imports[service_name])
protocols_content(mine) == render_protocols(Map(mine, protocol_router), protocol_imports(mine))

\* the output loop of ProtocolsGenerator.generate from service i on
RECURSIVE protocols_generate_from(_, _, _, _)
protocols_generate_from(domains, services, files, i) ==
    IF i > Len(services) THEN Done(files)
    ELSE Prepend(ProtocolsPath(services[i]),
                 protocols_generate_from(
                    domains, services,
                    format_file(write_file(files, ProtocolsPath(services[i]),
                                           protocols_content(DomainsOfService(domains, services[i])),
                                           TRUE),
                                ProtocolsPath(services[i])),
                    i + 1))

\* ProtocolsGenerator.generate
ProtocolsGenerator_generate(specs, files) ==
    protocols_generate_from(specs.domains, ServicesOf(specs.domains), files, 1)

\* event.name.replace("_", ".")
Subject(name) ==
    CASE name = "user_created" -> "user.created"
      [] name = "job_done" -> "job.done"
      [] OTHER -> name

\* event_ctx of EventsGenerator.generate
event_ctx(event) ==
    [name |-> event.name, message_model |-> event.message, subject |-> Subject(event.name)]

render_publisher(e) == <<Tok("publisher", <<e.name>>, <<(<<e.subject>>)>>, e.message_model, {}), NL>>
render_subscriber(e) == <<Tok("subscriber", <<e.name>>, <<(<<e.subject>>)>>, e.message_model, {}), NL>>

\* events.py.j2: the imports, the publishers, the subscribers
render_events(publishers, subscribers, imports) ==
    <<Tok("import", <<>>, <<>>, <<>>, imports), NL>>
    \o Flatten(Map(publishers, render_publisher))
    \o Flatten(Map(subscribers, render_subscriber))

\* the template context of EventsGenerator.generate
events_content(events) ==
    render_events(Map(SelectSeq(events, LAMBDA e : e.publish), event_ctx),
                  Map(SelectSeq(events, LAMBDA e : e.subscribe), event_ctx),
                  {events[i].message : i \in 1..Len(events)})

\* EventsGenerator.generate
EventsGenerator_generate(specs, files) ==
    IF Len(specs.events) = 0 THEN Done(files)
    ELSE [fs |-> format_file(write_file(files, EventsPath, events_content(specs.events), TRUE),
                             EventsPath),
          generated |-> <<EventsPath>>]

\* DomainSpec.get_events_operations
get_events_operations(domain) == SelectSeq(domain.operations, LAMBDA op : ~IsNone(op.events))

\* the contexts without "if not ctx.subscribe_channel: continue"
subscribe_contexts_unfiltered(domain) == Map(get_events_operations(domain), build_for_events)

\* the contexts EventAdapterGenerator.generate makes handlers for: the events
\* operations of a domain that subscribe
subscribe_contexts(domain) ==
    SelectSeq(Map(get_events_operations(domain), build_for_events),
              LAMBDA ctx : Truthy(ctx.subscribe_channel))

\* handler_ctx of EventAdapterGenerator.generate
adapter_handler(ctx) ==
    [name |-> ctx.name,
     subscribe_channel |-> ctx.subscribe_channel,
     publish_on_success_channel |-> ctx.publish_channel,
     message_model |-> IF Truthy(ctx.input_model) THEN ctx.input_model ELSE <<"dict">>,
     return_type |-> ctx.return_type]

adapter_handlers(domain) == Map(subscribe_contexts(domain), adapter_handler)

\* the entry appended to services_data[service_name]["domains"]
adapter_domain(d) ==
    [name |-> ModuleOf(d.name),
     protocol_name |-> ProtocolName(ModuleOf(d.name)),
     handlers |-> adapter_handlers(d.spec)]

\* "services_data[service_name]["imports"].update(ctx.imports)"
context_imports(ctxs) == UNION {ctxs[k].imports : k \in 1..Len(ctxs)}

\* services_data[service_name], from the domains of the service that have
\* events operations
service_data(mine) ==
    [domains |-> Map(SelectSeq(mine, LAMBDA d : Len(subscribe_contexts(d.spec)) > 0),
                     adapter_domain),
     imports |-> UNION {context_imports(subscribe_contexts(mine[d].spec)) : d \in 1..Len(mine)}]

adapter_service_data(domains, service_name) ==
    service_data(SelectSeq(DomainsOfService(domains, service_name),
                           LAMBDA d : Len(get_events_operations(d.spec)) > 0))

\* event_adapter.py.j2: the imports, then one subscriber per handler
render_adapter_handler(h) ==
    <<Tok("subscriber", <<h.name>>,
          <<h.subscribe_channel, h.publish_on_success_channel, h.message_model>>,
          h.return_type, {}), NL>>

render_adapter_domain(domain) ==
    <<Tok("protocol", domain.protocol_name, <<>>, <<>>, {}), NL>>
    \o Flatten(Map(domain.handlers, render_adapter_handler))

render_event_adapter(service_name, domains, imports) ==
    <<Tok("import", <<service_name>>, <<>>, <<>>, imports), NL>>
    \o Flatten(Map(domains, render_adapter_domain))

\* template.render(service_name=service_name, domains=..., imports=...)
adapter_content(service_name, data) ==
    render_event_adapter(service_name, data.domains, data.imports)

\* the output loop of EventAdapterGenerator.generate that keeps a file it finds
RECURSIVE event_adapter_generate_absent(_, _, _, _)
event_adapter_generate_absent(domains, services, files, i) ==
    IF i > Len(services) THEN Done(files)
    ELSE IF \/ Len(adapter_service_data(domains, services[i]).domains) = 0
            \/ Exists(files, EventAdapterPath(services[i]))
    THEN event_adapter_generate_absent(domains, services, files, i + 1)
    ELSE Prepend(EventAdapterPath(services[i]),
                 event_adapter_generate_absent(
                    domains, services,
                    format_file(write_file(files, EventAdapterPath(services[i]),
                                           adapter_content(services[i],
                                                adapter_service_data(domains, services[i])),
                                           TRUE),
                                EventAdapterPath(services[i])),
                    i + 1))

\* the output loop of EventAdapterGenerator.generate from service i on
RECURSIVE event_adapter_generate_from(_, _, _, _)
event_adapter_generate_from(domains, services, files, i) ==
    IF i > Len(services) THEN Done(files)
    ELSE IF Len(adapter_service_data(domains, services[i]).domains) = 0
    THEN event_adapter_generate_from(domains, services, files, i + 1)
    ELSE Prepend(EventAdapterPath(services[i]),
                 event_adapter_generate_from(
                    domains, services,
                    format_file(write_file(files, EventAdapterPath(services[i]),
                                           adapter_content(services[i],
                                                adapter_service_data(domains, services[i])),
                                           TRUE),
                                EventAdapterPath(services[i])),
                    i + 1))

\* EventAdapterGenerator.generate
EventAdapterGenerator_generate(specs, files) ==
    event_adapter_generate_from(specs.domains, ServicesOf(specs.domains), files, 1)

-----------------------------------------------------------------------------
(* Registry and client generators: framework/generators/registry.py, clients.py *)

\* registry.py placed on the protocols module of the service
RegistryPathInProtocols(service_name) == ProtocolsPath(service_name)

RegistryPath(service_name) == <<"services", service_name, "src", "generated", "registry.py">>
ClientPath(service_name, provider) ==
    <<"services", service_name, "src", "generated", "clients", provider, ".py">>
ClientsInitPath(service_name) ==
    <<"services", service_name, "src", "generated", "clients", "__init__", ".py">>

\* str(bool), str(int)
BoolStr(b) == IF b THEN "True" ELSE "False"
StatusStr(n) ==
    CASE n = 200 -> "200" [] n = 201 -> "201" [] n = 202 -> "202" [] n = 204 -> "204"
      [] OTHER -> "None"

\* str.lower() of an HTTP method
Lower(method) ==
    CASE method = "GET" -> "get" [] method = "POST" -> "post" [] method = "PUT" -> "put"
      [] method = "PATCH" -> "patch" [] method = "DELETE" -> "delete" [] OTHER -> method

\* provider.replace("_", " ").title().replace(" ", "")
Title(name) ==
    CASE name = "backend" -> "Backend" [] name = "worker" -> "Worker"
      [] name = "tg_bot" -> "TgBot" [] OTHER -> name

\* sorted(names) of the service names
SortedNames(names) == SelectSeq(<<"backend", "tg_bot", "worker">>, LAMBDA n : n \in names)

\* DomainSpec.get_rest_operations
get_rest_operations(domain) == SelectSeq(domain.operations, LAMBDA op : ~IsNone(op.rest))

\* "has_rest_events", "has_events_subscribe" of RegistryGenerator.generate
has_rest_events(domain) ==
    \E op \in Range(get_rest_operations(domain)) : ~IsNone(op.events)
has_events_subscribe(domain) ==
    \E op \in Range(get_events_operations(domain)) : Truthy(op.events[1].subscribe)

\* "if not has_rest and not has_events_subscribe: continue"
registered(d) == Len(get_rest_operations(d.spec)) > 0 \/ has_events_subscribe(d.spec)

\* domain_ctx of RegistryGenerator.generate
registry_domain(d) ==
    [name |-> ModuleOf(d.name),
     protocol_name |-> ProtocolName(ModuleOf(d.name)),
     has_rest |-> Len(get_rest_operations(d.spec)) > 0,
     has_events |-> has_rest_events(d.spec)]

\* services_data[service_name] with has_event_adapter taken from the REST domains
registry_data_rest_adapter(mine) ==
    [domains |-> SelectSeq(Map(mine, registry_domain), LAMBDA c : c.has_rest),
     has_event_adapter |->
        \E d \in Range(mine) :
            Len(get_rest_operations(d.spec)) > 0 /\ has_events_subscribe(d.spec),
     has_rest_events |-> \E d \in Range(mine) : has_rest_events(d.spec),
     protocol_imports |-> {ProtocolName(ModuleOf(d.name)) : d \in Range(mine)}]

\* services_data[service_name] from the registered domains of the service
registry_data(mine) ==
    [domains |-> SelectSeq(Map(mine, registry_domain), LAMBDA c : c.has_rest),
     has_event_adapter |-> \E d \in Range(mine) : has_events_subscribe(d.spec),
     has_rest_events |-> \E d \in Range(mine) : has_rest_events(d.spec),
     protocol_imports |-> {ProtocolName(ModuleOf(d.name)) : d \in Range(mine)}]

\* registry.py.j2; protocol_imports arrives sorted, so as the set it sorts
render_registry_domain(c) ==
    <<Tok("include_router", <<c.name>>, <<(<<BoolStr(c.has_events)>>)>>, c.protocol_name, {}), NL>>

render_registry(service_name, data) ==
    <<Tok("import", <<service_name>>,
          <<(<<BoolStr(data.has_event_adapter)>>), (<<BoolStr(data.has_rest_events)>>)>>,
          <<>>, data.protocol_imports), NL>>
    \o Flatten(Map(data.domains, render_registry_domain))

\* the output loop of RegistryGenerator.generate from service i on
RECURSIVE registry_generate_from(_, _, _, _)
registry_generate_from(domains, services, files, i) ==
    IF i > Len(services) THEN Done(files)
    ELSE IF Len(registry_data(DomainsOfService(domains, services[i])).domains) = 0
    THEN registry_generate_from(domains, services, files, i + 1)
    ELSE Prepend(RegistryPath(services[i]),
                 registry_generate_from(
                    domains, services,
                    format_file(write_file(files, RegistryPath(services[i]),
                                           render_registry(services[i],
                                              registry_data(DomainsOfService(domains, services[i]))),
                                           TRUE),
                                RegistryPath(services[i])),
                    i + 1))

\* RegistryGenerator.generate
RegistryGenerator_generate(specs, files) ==
    registry_generate_from(SelectSeq(specs.domains, registered),
                           ServicesOf(SelectSeq(specs.domains, registered)), files, 1)

\* "domain_key not in self.specs.domains" of ClientsGenerator.generate
consume_known(domains, consume) == HasKey(domains, DomainKey(consume.service, consume.domain))

\* the operations a consume entry selects of its domain
consumed_ops(domains, consume) ==
    SelectSeq(get_rest_operations(Get(domains, DomainKey(consume.service, consume.domain)).spec),
              LAMBDA op : consume.operations = <<>> \/ op.name \in Range(consume.operations))

\* the keys of provider_domains, in insertion order
providers_of(domains, consumes) ==
    Dedup(Map(SelectSeq(consumes, LAMBDA c : consume_known(domains, c)),
              LAMBDA c : c.service))

\* provider_domains[provider]: the entries appended for the provider
provider_domains(domains, consumes, provider) ==
    Map(SelectSeq(consumes, LAMBDA c : /\ c.service = provider
                                       /\ consume_known(domains, c)
                                       /\ Len(consumed_ops(domains, c)) > 0),
        LAMBDA c : [domain |-> Get(domains, DomainKey(c.service, c.domain)).spec,
                    operations |-> consumed_ops(domains, c)])

\* op_ctx of ClientsGenerator._prepare_context
client_op_ctx(ctx) ==
    [name |-> ctx.name,
     http_method |-> IF ctx.http_method # "None" THEN Lower(ctx.http_method) ELSE "get",
     path |-> IF Truthy(ctx.path) THEN ctx.path ELSE <<>>,
     params |-> Map(ctx.params, NameAndType),
     input_model |-> ctx.input_model,
     output_model |-> ctx.output_model,
     return_type |-> computed_return_type(ctx),
     status_code |-> ctx.status_code]

client_op(op) == client_op_ctx(build_for_rest(op))
client_op_imports(op) == build_for_rest(op).imports

\* the entry of domains_context for one entry of domains_data
client_domain(data) ==
    [name |-> data.domain.name, prefix |-> <<>>, operations |-> Map(data.operations, client_op)]

\* ClientsGenerator._prepare_context
prepare_context(provider, domains_data) ==
    [provider |-> provider,
     provider_capitalized |-> Title(provider),
     imports |-> UNION {UNION {client_op_imports(op) : op \in Range(data.operations)} :
                        data \in Range(domains_data)},
     domains |-> Map(domains_data, client_domain)]

\* client.py.j2
render_client_op(o) ==
    <<Tok("method", <<o.name>>,
          <<(<<o.http_method>>), o.path, o.input_model, o.output_model,
            (<<StatusStr(o.status_code)>>)>> \o MethodParams(o.params, None),
          o.return_type, {}), NL>>

render_client_domain(d) ==
    <<Tok("domain", <<d.name>>, <<d.prefix>>, <<>>, {}), NL>>
    \o Flatten(Map(d.operations, render_client_op))

render_client(context) ==
    <<Tok("import", <<context.provider_capitalized, "Client">>, <<>>, <<>>, context.imports), NL>>
    \o Flatten(Map(context.domains, render_client_domain))

\* ClientsGenerator._generate_client
generate_client(files, provider, domains_data, output_file) ==
    format_file(write_file(files, output_file,
                           render_client(prepare_context(provider, domains_data)), TRUE),
                output_file)

\* ClientsGenerator._generate_clients_init: the lines it joins
clients_init_content(providers) ==
    <<Tok("docstring", <<>>, <<>>, <<>>, {}), NL, NL>>
    \o Flatten(Map(SortedNames(Range(providers)),
                   LAMBDA q : <<Tok("from", <<q>>, <<>>, <<Title(q), "Client">>, {}), NL>>))
    \o <<NL, Tok("all", <<>>, Map(SortedNames(Range(providers)),
                                  LAMBDA q : <<Title(q), "Client">>), <<>>, {}), NL>>

generate_clients_init(files, providers, output_file) ==
    format_file(write_file(files, output_file, clients_init_content(providers), TRUE),
                output_file)

\* "for provider, domains_data in provider_domains.items()" from provider k on,
\* then clients/__init__.py
RECURSIVE clients_of_service_from(_, _, _, _, _)
clients_of_service_from(domains, manifest, providers, files, k) ==
    IF k > Len(providers)
    THEN IF Len(providers) = 0 THEN Done(files)
         ELSE Prepend(ClientsInitPath(manifest.name),
                      Done(generate_clients_init(files, providers,
                                                 ClientsInitPath(manifest.name))))
    ELSE Prepend(ClientPath(manifest.name, providers[k]),
                 clients_of_service_from(
                    domains, manifest, providers,
                    generate_client(files, providers[k],
                                    provider_domains(domains, manifest.spec.consumes, providers[k]),
                                    ClientPath(manifest.name, providers[k])),
                    k + 1))

\* what the manifests after the first report, behind what the first reported
Behind(first, rest) == [fs |-> rest.fs, generated |-> first.generated \o rest.generated]

\* "for service_name, manifest in self.specs.manifests.items()" from manifest i on
RECURSIVE clients_generate_from(_, _, _, _)
RECURSIVE clients_after(_, _, _, _)
clients_generate_from(domains, manifests, files, i) ==
    IF i > Len(manifests) THEN Done(files)
    ELSE clients_after(domains, manifests, i,
                       clients_of_service_from(
                          domains, manifests[i],
                          providers_of(domains, manifests[i].spec.consumes), files, 1))

clients_after(domains, manifests, i, first) ==
    Behind(first, clients_generate_from(domains, manifests, first.fs, i + 1))

\* ClientsGenerator.generate
ClientsGenerator_generate(specs, files) ==
    clients_generate_from(specs.domains, specs.manifests, files, 1)

-----------------------------------------------------------------------------
(* generate_all: framework/generate.py *)

\* "SchemasGenerator is not None": datamodel-code-generator is installed
SchemasAvailable == TRUE

\* the generators list of generate_all
Generators ==
    (IF SchemasAvailable THEN <<"Schemas">> ELSE <<>>)
    \o <<"Protocols", "Controllers", "Events", "EventAdapters">>

\* generator.generate() of the named generator
generate(name, specs, files) ==
    CASE name = "Schemas" -> SchemasGenerator_generate(specs, files)
      [] name = "Protocols" -> ProtocolsGenerator_generate(specs, files)
      [] name = "Controllers" -> ControllersGenerator_generate(specs, files)
      [] name = "Events" -> EventsGenerator_generate(specs, files)
      [] name = "EventAdapters" -> EventAdapterGenerator_generate(specs, files)
      [] name = "Registry" -> RegistryGenerator_generate(specs, files)
      [] name = "Clients" -> ClientsGenerator_generate(specs, files)

\* the report of one generator ahead of the generators that run after it
Report(name, result, rest) ==
    [fs |-> rest.fs, generated |-> <<[name |-> name, paths |-> result.generated]>> \o rest.generated]

\* "for name, generator in generators" from generator i on
RECURSIVE run_generators_from(_, _, _, _)
RECURSIVE run_after(_, _, _, _)
run_generators_from(generators, specs, files, i) ==
    IF i > Len(generators) THEN Done(files)
    ELSE run_after(generators, specs, i, generate(generators[i], specs, files))

\* the rest of the loop once generator i has returned
run_after(generators, specs, i, result) ==
    Report(generators[i], result, run_generators_from(generators, specs, result.fs, i + 1))

\* what a generate_all run leaves: the load outcome, the exit status, the file
\* tree and what each generator reported
Outcome(load, exit, result) ==
    [load |-> load, exit |-> exit, fs |-> result.fs, generated |-> result.generated]

\* generate_all after a load_specs that goes on to the schemas when it failed
generate_loaded_lenient(load, r, files) ==
    IF ~load.ok
    THEN Outcome(load, 1,
                 run_generators_from(<<"Schemas">>,
                    [models |-> IF IsNone(r.models) THEN <<>> ELSE r.models[1],
                     events |-> <<>>, domains |-> <<>>, manifests |-> <<>>],
                    files, 1))
    ELSE IF Len(load.specs.models) = 0 THEN Outcome(load, 0, Done(files))
    ELSE Outcome(load, 0, run_generators_from(Generators, load.specs, files, 1))

\* generate_all from the outcome of load_specs on
generate_loaded(load, r, files) ==
    IF ~load.ok THEN Outcome(load, 1, Done(files))
    ELSE IF Len(load.specs.models) = 0 THEN Outcome(load, 0, Done(files))
    ELSE Outcome(load, 0, run_generators_from(Generators, load.specs, files, 1))

\* generate_all(repo_root)
generate_all(r, files) == generate_loaded(load_specs(r), r, files)

\* every generator of the framework: those of generate_all, then the registry
\* and the clients
AllGenerators == Generators \o <<"Registry", "Clients">>

-----------------------------------------------------------------------------
(* What a call leaves of the specs it was handed *)

\* build() whose parameter list is operation.params itself: "params.append"
\* lands in the specification
built_operation_shared_params(operation, include_rest, include_events) ==
    [operation EXCEPT !.params = @ \o build(operation, include_rest, include_events).params]

\* the OperationSpec once build() has returned: "imports" and "params" are new
\* objects, every later assignment is to a field of the new ctx
built_operation(operation, include_rest, include_events) == operation

\* the operations of domain d the named generator hands to the context builder
built_by(name, specs, d) ==
    CASE name \in {"Protocols", "Controllers"} -> Range(d.spec.operations)
      [] name = "EventAdapters" -> Range(get_events_operations(d.spec))
      [] name = "Clients" ->
            UNION {Range(consumed_ops(specs.domains, c)) :
                     c \in {c \in UNION {Range(specs.manifests[m].spec.consumes) :
                                           m \in 1..Len(specs.manifests)} :
                              /\ consume_known(specs.domains, c)
                              /\ DomainKey(c.service, c.domain) = d.name}}
      [] OTHER -> {}

\* include_rest and include_events of the builder method the generator calls
builder_flags(name) == [rest |-> name = "Clients", events |-> name = "EventAdapters"]

\* domain.operations once the generator has returned
operations_after(name, specs, d) ==
    Map(d.spec.operations,
        LAMBDA op : IF op \in built_by(name, specs, d)
                    THEN built_operation(op, builder_flags(name).rest, builder_flags(name).events)
                    ELSE op)

\* self.specs once generate() of the named generator has returned
specs_after(name, specs) ==
    [specs EXCEPT !.domains =
        Map(@, LAMBDA d : [d EXCEPT !.spec.operations = operations_after(name, specs, d)])]

-----------------------------------------------------------------------------
(* Controller sync: framework/lint/controller_sync.py *)

\* "needle in line" for one line of text
LineContains(tok, needle) ==
    needle \in Range(tok.n) \cup UNION {Range(tok.a[i]) : i \in 1..Len(tok.a)}

\* get_controller_methods
get_controller_methods(files, controller_path) ==
    IF ~Exists(files, controller_path) THEN {}
    ELSE LET text == files[controller_path] IN
         IF \E i \in 1..Len(text) : text[i].k = "syntax_error" THEN {}
         ELSE {text[i].n : i \in {j \in 1..Len(text) : text[j].k = "async_def"}}
              \cup {text[i].n : i \in {j \in 1..Len(text) :
                                        text[j].k = "def" /\ ~StartsWith(text[j].n, "_")}}

\* MissingMethod(name, params, return_type) of check_controller_sync
missing_method(ctx) ==
    [name |-> ctx.name,
     params |-> MethodParams(ctx.params, ctx.input_model),
     return_type |-> computed_return_type(ctx)]

missing_operation(operation) == missing_method(build_for_protocol(operation))

\* the missing list check_controller_sync builds for one domain
missing_methods(operations, actual_methods) ==
    Map(SelectSeq(operations, LAMBDA op : <<op.name>> \notin actual_methods), missing_operation)

\* the ControllerSyncResult of one domain
sync_result(domain, files) ==
    [controller_path |-> ControllerFile(domain.name),
     protocol_name |-> ProtocolName(ModuleOf(domain.name)),
     missing_methods |->
        missing_methods(domain.spec.operations,
                        get_controller_methods(files, ControllerFile(domain.name)))]

\* check_controller_sync
check_controller_sync(specs, files) ==
    [d \in 1..Len(specs.domains) |-> sync_result(specs.domains[d], files)]

\* ControllerSyncResult.is_synced
is_synced(result) == Len(result.missing_methods) = 0

\* the stub text of one missing method
stub(method) ==
    <<NL,
      Tok("async_def", <<method.name>>, <<(<<"self">>)>> \o method.params,
          method.return_type, {}), NL,
      Tok("todo", <<method.name>>, <<>>, <<>>, {}), NL,
      Tok("raise_not_implemented", <<method.name>>, <<>>, <<>>, {}), NL>>

\* "line.strip().startswith("class ") and "Controller" in line" for some line
class_found(lines) ==
    \E i \in 1..Len(lines) : lines[i].k = "class" /\ LineContains(lines[i], "Controller")

\* "new_content = content.rstrip() + "\n" + stub_content"
new_content(content, stubs) == Rstrip(content) \o <<NL>> \o Flatten(stubs)

\* stub_missing_methods
stub_missing_methods(result, files) ==
    IF is_synced(result) THEN files
    ELSE IF ~Exists(files, result.controller_path) THEN files
    ELSE IF ~class_found(Rstrip(files[result.controller_path])) THEN files
    ELSE WriteText(files, result.controller_path,
                   new_content(files[result.controller_path],
                               Map(result.missing_methods, stub)))

-----------------------------------------------------------------------------
(* The repositories and the hand edits the pipeline is run on *)

OpReadUser ==
    [name |-> "read_user", input |-> None, output |-> User,
     params |-> <<[name |-> "user_id", type |-> "int", required |-> TRUE]>>,
     rest |-> Some([method |-> "GET", path |-> <<"/{user_id}">>, status |-> StatusNone]),
     events |-> NoEvents]

GenOps == {OpCreateUser, OpListUsers, OpReadUser, OpSubscribe, OpGhostOutput, OpOrphan}

UserCreated == [name |-> "user_created", message |-> User, publish |-> TRUE, subscribe |-> FALSE]

BackendWith(ops) ==
    <<[name |-> "backend",
       domains |-> <<[name |-> "users", operations |-> ops]>>,
       manifest |-> <<>>]>>

GenRepos ==
    [models : {ValidModelsFile},
     events : {<<>>, Some(<<UserCreated>>)},
     services : {BackendWith(ops) : ops \in DistinctSeqs(GenOps, 0, MaxGenOps)}]

\* what a developer does to a controller file
HandEdits ==
    {"implement", "append_blank_lines", "remove_handlers", "rename_class",
     "break_syntax", "add_helper"}

HandEdit(kind, text) ==
    CASE kind = "implement" ->
            [i \in 1..Len(text) |->
                IF text[i].k = "raise_not_implemented"
                THEN Tok("body", text[i].n, <<>>, <<>>, {}) ELSE text[i]]
      [] kind = "append_blank_lines" -> text \o <<NL, NL>>
      [] kind = "remove_handlers" ->
            SelectSeq(text, LAMBDA t : t.k \notin {"async_def", "raise_not_implemented", "todo"})
      [] kind = "rename_class" ->
            [i \in 1..Len(text) |->
                IF text[i].k = "class"
                THEN Tok("class", <<"Handlers">>, <<>>, <<>>, {}) ELSE text[i]]
      [] kind = "break_syntax" -> text \o <<Tok("syntax_error", <<>>, <<>>, <<>>, {}), NL>>
      [] OTHER -> text \o <<Tok("def", <<"_", "helper">>, <<>>, None, {}), NL>>

IsControllerPath(path) == Len(path) = 6 /\ path[4] = "controllers"

\* the documents and the trees the generators are run on one by one
OpPublish ==
    [name |-> "update_user", input |-> UserCreate, output |-> User,
     params |-> <<[name |-> "user_id", type |-> "int", required |-> TRUE]>>,
     rest |-> Some([method |-> "PUT", path |-> <<"/{user_id}">>, status |-> 202]),
     events |-> Some([subscribe |-> None, publish_on_success |-> <<"user.created">>])]

OrderOps == {OpCreateUser, OpReadUser, OpSubscribe, OpPublish}

Consumer(operations) ==
    [name |-> "tg_bot", domains |-> <<>>,
     manifest |-> Some([consumes |-> <<[service |-> Some("backend"), domain |-> "users",
                                        operations |-> operations]>>])]

OrderRepos ==
    [models : {ValidModelsFile},
     events : {<<>>, Some(<<UserCreated>>)},
     services : {BackendWith(ops) \o tail :
                    ops \in DistinctSeqs(OrderOps, 0, MaxGenOps),
                    tail \in {<<>>, <<Consumer(<<>>)>>, <<Consumer(<<"create_user">>)>>}}]

\* an earlier run on other documents, whose controller was then implemented
EarlierRepo ==
    [models |-> ValidModelsFile, events |-> <<>>, services |-> BackendWith(<<OpListUsers>>)]
Implemented(files) ==
    WriteText(files, ControllerPath("backend", "users"),
              HandEdit("implement", files[ControllerPath("backend", "users")]))
StartTrees == {<<>>, Implemented(generate_all(EarlierRepo, <<>>).fs)}

\* the documents the event adapter and the registry are generated from:
\* operations that only publish, with and without REST, and an operation with
\* REST that subscribes
OpAnnounce ==
    [name |-> "announce_user", input |-> User, output |-> None, params |-> <<>>,
     rest |-> NoRest,
     events |-> Some([subscribe |-> None, publish_on_success |-> <<"user.created">>])]
OpRestSubscribe ==
    [name |-> "import_user", input |-> UserCreate, output |-> User, params |-> <<>>,
     rest |-> Rest("POST"),
     events |-> Some([subscribe |-> <<"user.requested">>, publish_on_success |-> None])]

EmitOps == {OpCreateUser, OpPublish, OpAnnounce, OpSubscribe, OpRestSubscribe}

Service(name, domains) == [name |-> name, domains |-> domains, manifest |-> <<>>]
DomainDoc(name, operations) == [name |-> name, operations |-> operations]

EmitRepos ==
    [models : {ValidModelsFile},
     events : {<<>>},
     services :
        {<<Service("backend", <<DomainDoc("users", users)>> \o jobs)>> \o worker :
            users \in DistinctSeqs(EmitOps, 1, MaxGenOps),
            jobs \in {<<>>} \cup {<<DomainDoc("jobs", <<op>>)>> : op \in EmitOps},
            worker \in {<<>>} \cup {<<Service("worker", <<DomainDoc("jobs", <<op>>)>>)>> :
                                       op \in EmitOps}}]

-----------------------------------------------------------------------------
(* HTTP clients: template/shared/shared/http_client.py, services/tg_bot/src/main.py *)

CREATED == 201
BAD_REQUEST == 400
CONFLICT == 409
INTERNAL_SERVER_ERROR == 500

\* what one attempt meets: a response with a status code, or an httpx exception
\* raised by the transport (ReadTimeout is an HTTPError that is no ConnectError)
HttpStatuses == {200, CREATED, BAD_REQUEST, 404, CONFLICT, INTERNAL_SERVER_ERROR, 503}
Response(status) == [error |-> "none", status |-> status]
TransportError(name) == [error |-> name, status |-> 0]
Replies == {Response(status) : status \in HttpStatuses}
               \cup {TransportError("ConnectError"), TransportError("ReadTimeout")}

\* httpx.Response.raise_for_status raises for the 4xx and 5xx codes
is_error(status) == status >= BAD_REQUEST

\* how a call ended: by "return value" or by "raise exception"
Returned(value, status) == [how |-> "returned", what |-> value, status |-> status]
Raising(exception, status) == [how |-> "raised", what |-> exception, status |-> status]
Pending == [how |-> "pending", what |-> "", status |-> 0]

\* a call that has not started
NewCall(kind, max_retries, initial_delay) ==
    [kind |-> kind, max_retries |-> max_retries, initial_delay |-> initial_delay,
     pc |-> "idle", attempt |-> 0,
     delay |-> initial_delay, replies |-> <<>>, sleeps |-> <<>>, trace |-> <<>>,
     last_exception |-> Pending, outcome |-> Pending]

\* "return ..." or "raise ..." out of the call
Finish(c, outcome) == [c EXCEPT !.pc = "done", !.outcome = outcome]

\* the backoff without "delay *= 2"
Backoff_constant(c) ==
    IF c.attempt < c.max_retries - 1
    THEN [c EXCEPT !.sleeps = Append(@, c.delay), !.trace = Append(@, "sleep")]
    ELSE c

\* "await asyncio.sleep(delay); delay *= 2" unless the attempt was the last one
Backoff(c) ==
    IF c.attempt < c.max_retries - 1
    THEN [c EXCEPT !.sleeps = Append(@, c.delay), !.trace = Append(@, "sleep"),
                   !.delay = 2 * @]
    ELSE c

\* ServiceClient._request that returns quietly after the loop
request_exhausted_quietly(c) == Finish(c, Returned("response", 0))

\* ServiceClient._request after the loop
request_exhausted(c) ==
    IF c.last_exception # Pending THEN Finish(c, c.last_exception)
    ELSE Finish(c, Raising("RuntimeError", 0))

\* the next turn of "for attempt in range(self.max_retries)"
request_continue(c) ==
    IF c.attempt + 1 < c.max_retries
    THEN [c EXCEPT !.attempt = @ + 1, !.pc = "awaiting", !.trace = Append(@, "attempt")]
    ELSE request_exhausted([c EXCEPT !.attempt = @ + 1])

\* "last_exception = e", the backoff, and the next turn of the loop
request_retry(c, exception) ==
    request_continue(Backoff([c EXCEPT !.last_exception = exception]))

\* ServiceClient._request that treats every error status alike
request_attempt_any_status(c, reply) ==
    IF reply.error = "none" /\ ~is_error(reply.status)
    THEN Finish(c, Returned("response", reply.status))
    ELSE IF reply.error = "none"
    THEN request_retry(c, Raising("HTTPStatusError", reply.status))
    ELSE IF reply.error = "ConnectError"
    THEN request_retry(c, Raising("ConnectError", 0))
    ELSE Finish(c, Raising(reply.error, 0))

\* ServiceClient._request: the body of one attempt on the reply it meets
request_attempt(c, reply) ==
    IF reply.error = "none" /\ ~is_error(reply.status)
    THEN Finish(c, Returned("response", reply.status))
    ELSE IF reply.error = "none"
    THEN IF BAD_REQUEST <= reply.status /\ reply.status < INTERNAL_SERVER_ERROR
         THEN Finish(c, Raising("HTTPStatusError", reply.status))
         ELSE request_retry(c, Raising("HTTPStatusError", reply.status))
    ELSE IF reply.error = "ConnectError"
    THEN request_retry(c, Raising("ConnectError", 0))
    ELSE Finish(c, Raising(reply.error, 0))

\* ServiceClient._request up to its first await
request_start(c) ==
    IF c.max_retries > 0
    THEN [c EXCEPT !.pc = "awaiting", !.trace = Append(@, "attempt")]
    ELSE request_exhausted(c)

\* _sync_user_with_backend: the end of one turn of the loop
sync_continue(c) ==
    IF c.attempt + 1 < c.max_retries
    THEN [c EXCEPT !.attempt = @ + 1, !.pc = "awaiting", !.trace = Append(@, "attempt")]
    ELSE Finish([c EXCEPT !.attempt = @ + 1], Returned("None", 0))

\* _sync_user_with_backend: the body of one attempt on the reply it meets
sync_attempt(c, reply) ==
    IF reply.error = "none" /\ reply.status = CREATED
    THEN Finish(c, Returned("True", reply.status))
    ELSE IF reply.error = "none" /\ reply.status = CONFLICT
    THEN Finish(c, Returned("False", reply.status))
    ELSE IF /\ reply.error = "none"
            /\ BAD_REQUEST <= reply.status /\ reply.status < INTERNAL_SERVER_ERROR
    THEN Finish(c, Returned("None", reply.status))
    ELSE IF reply.error \in {"none", "ConnectError"}
    THEN sync_continue(Backoff(c))
    ELSE IF c.attempt = c.max_retries - 1
    THEN Finish(c, Returned("None", 0))
    ELSE sync_continue(Backoff(c))

\* _sync_user_with_backend up to its first await
sync_start(c) ==
    IF c.max_retries > 0
    THEN [c EXCEPT !.pc = "awaiting", !.trace = Append(@, "attempt")]
    ELSE Finish(c, Returned("None", 0))

\* the reply is recorded with the attempt that met it
Met(c, reply) == [c EXCEPT !.replies = Append(@, reply)]

-----------------------------------------------------------------------------
(* Generated subscribers: framework/generators/event_adapter.py and *)
(* templates/event_adapter.py.j2 *)

\* handler_ctx of EventAdapterGenerator.generate without its error channel
error_handler_dropped(ctx, publish_on_error) ==
    adapter_handler(ctx) @@ [publish_on_error_channel |-> None]

\* handler_ctx of EventAdapterGenerator.generate with
\* "publish_on_error_channel": ctx.publish_on_error_channel
error_handler(ctx, publish_on_error) ==
    adapter_handler(ctx) @@ [publish_on_error_channel |-> publish_on_error]

\* what the subscriber did, in order, for the message it numbers
Event(message, what, channel) == [message |-> message, what |-> what, channel |-> channel]

\* the subscriber rendered for a handler, before any message
NewSubscriber(operation, publish_on_error) ==
    [operation |-> operation,
     publish_on_error |-> publish_on_error,
     handler |-> error_handler(build_for_events(operation), publish_on_error),
     pc |-> "idle", message |-> 0, log |-> <<>>]

\* where the rendered subscriber goes when the controller method returns
after_return(h) ==
    IF Truthy(h.publish_on_success_channel) THEN "publish_success" ELSE "idle"

\* where it goes when the controller method raises: into "except Exception
\* as e" when the handler has an error channel, out of the function otherwise
after_raise(h) ==
    IF Truthy(h.publish_on_error_channel) THEN "publish_error" ELSE "idle"

\* the operations a subscriber is generated for: those with events.subscribe
SubscribeOps ==
    {op \in {OperationSpec_from_yaml(d.name, d).op[1] :
                d \in {x \in OpDatas : OperationSpec_from_yaml(x.name, x).ok}} :
        ~IsNone(op.events) /\ Truthy(op.events[1].subscribe)}

ErrorChannels == {None, <<"batch.failed">>}

-----------------------------------------------------------------------------
(* Type system: template/.framework/framework/spec/types.py *)

\* PRIMITIVE_TYPES
PRIMITIVE_TYPES == {"int", "string", "bool", "float", "datetime", "uuid"}

\* A YAML string is [text |-> its pieces]; a YAML mapping is a record of its keys
IsStr(data) == "text" \in DOMAIN data
Text(pieces) == [text |-> pieces]

\* data[5:-1] of a text that starts with "list[" or "dict["
Bracketed(s) == SubSeq(s, 2, Len(s) - 1)

\* str.strip()
RECURSIVE Strip(_)
Strip(s) ==
    IF StartsWith(s, " ") THEN Strip(Tail(s))
    ELSE IF EndsWith(s, " ") THEN Strip(SubSeq(s, 1, Len(s) - 1))
    ELSE s

\* inner.split(",", 1): the text before the first comma and the text after it,
\* or the text alone
Commas(s) == {i \in 1..Len(s) : s[i] = ","}
FirstComma(s) == CHOOSE i \in Commas(s) : \A j \in Commas(s) : i <= j
Split(s) ==
    IF Commas(s) = {} THEN <<s>>
    ELSE <<SubSeq(s, 1, FirstComma(s) - 1), SubSeq(s, FirstComma(s) + 1, Len(s))>>

\* val.isidentifier() and val.startswith("_") for the enum values of the documents
isidentifier(val) == val \in {"a", "b", "c", "_c", "class"}
startswith_underscore(val) == val \in {"_c"}

\* EnumType.validate_values
validate_values(v) ==
    /\ Len(v) >= 2
    /\ Len(v) = Cardinality(Range(v))
    /\ \A i \in 1..Len(v) : isidentifier(v[i]) /\ ~startswith_underscore(v[i])

\* EnumType.validate_default_in_values accepting every default
validate_default_in_values_any(values, default) == TRUE

\* EnumType.validate_default_in_values
validate_default_in_values(values, default) ==
    IsNone(default) \/ default[1] \in Range(values)

\* isinstance(key, PrimitiveType)
IsPrimitive(spec) == spec.type \in PRIMITIVE_TYPES

\* DictType.validate_key_type accepting every key
validate_key_type_any(key) == TRUE

\* DictType.validate_key_type
validate_key_type(key) == IsPrimitive(key)

\* EnumType(type="enum", values=..., default=...)
EnumType(values, default) ==
    IF ~validate_values(values) THEN ValueError(<<"Enum values">>)
    ELSE IF ~validate_default_in_values(values, default) THEN ValueError(<<"Default not in enum values">>)
    ELSE [type |-> "enum", values |-> values, default |-> default]

\* ListType(type="list", of=...), OptionalType(type="optional", of=...)
Wrapper(type, of) == IF Raised(of) THEN of ELSE [type |-> type, of |-> of]

\* DictType(type="dict", key=..., value=...)
DictType(key, value) ==
    IF Raised(key) THEN key
    ELSE IF Raised(value) THEN value
    ELSE IF ~validate_key_type(key) THEN ValueError(<<"Dict key must be a primitive type">>)
    ELSE [type |-> "dict", key |-> key, value |-> value]

\* _type_spec_adapter.validate_python: the discriminated union over "type"
RECURSIVE validate_python(_)
validate_python(data) ==
    IF IsStr(data) \/ "type" \notin DOMAIN data THEN ValueError(<<"Unable to extract tag">>)
    ELSE IF data.type \in PRIMITIVE_TYPES THEN [type |-> data.type]
    ELSE IF data.type \in {"list", "optional"}
    THEN IF "of" \notin DOMAIN data THEN ValueError(<<"Field required">>)
         ELSE Wrapper(data.type, validate_python(data.of))
    ELSE IF data.type = "dict"
    THEN IF {"key", "value"} \subseteq DOMAIN data
         THEN DictType(validate_python(data.key), validate_python(data.value))
         ELSE ValueError(<<"Field required">>)
    ELSE IF data.type = "enum"
    THEN IF "values" \notin DOMAIN data THEN ValueError(<<"Field required">>)
         ELSE EnumType(data.values,
                       IF "default" \in DOMAIN data THEN Some(data.default) ELSE <<>>)
    ELSE ValueError(<<"Input tag does not match any of the expected tags">>)

\* the last branch of the shorthand parser mapping what it does not know to a string
unknown_shorthand_as_string(data) == [type |-> "string"]

\* "raise ValueError(Unknown type shorthand)"
unknown_shorthand(data) == ValueError(<<"Unknown type shorthand: ">> \o data)

\* parse_type_spec on a string
RECURSIVE parse_shorthand(_)
parse_shorthand(data) ==
    IF Len(data) = 1 /\ data[1] \in PRIMITIVE_TYPES THEN [type |-> data[1]]
    ELSE IF StartsWith(data, "list[") /\ EndsWith(data, "]")
    THEN Wrapper("list", parse_shorthand(Bracketed(data)))
    ELSE IF StartsWith(data, "dict[") /\ EndsWith(data, "]") /\ Len(Split(Bracketed(data))) = 2
    THEN DictType(parse_shorthand(Strip(Split(Bracketed(data))[1])),
                  parse_shorthand(Strip(Split(Bracketed(data))[2])))
    ELSE unknown_shorthand(data)

\* parse_type_spec
parse_type_spec(data) ==
    IF IsStr(data) THEN parse_shorthand(data.text)
    ELSE IF "type" \notin DOMAIN data THEN ValueError(<<"Field spec must have a 'type' key">>)
    ELSE validate_python(data)

\* the mapping of type_spec_to_python
python_primitive(type) ==
    CASE type = "int" -> "int"
      [] type = "string" -> "str"
      [] type = "bool" -> "bool"
      [] type = "float" -> "float"
      [] type = "datetime" -> "AwareDatetime"
      [] type = "uuid" -> "UUID"

\* f"list[{inner}]", f"dict[{key}, {value}]" and f"{inner} | None"; an inner
\* call that raised leaves no string
PyList(inner) ==
    IF Raised(inner) THEN inner ELSE Text(<<"list[">> \o inner.text \o <<"]">>)
PyDict(key, value) ==
    IF Raised(key) THEN key
    ELSE IF Raised(value) THEN value
    ELSE Text(<<"dict[">> \o key.text \o <<",", " ">> \o value.text \o <<"]">>)
PyOptional(inner) ==
    IF Raised(inner) THEN inner ELSE Text(inner.text \o <<" ", "|", " ", "None">>)

\* type_spec_to_python
RECURSIVE type_spec_to_python(_)
type_spec_to_python(spec) ==
    IF IsPrimitive(spec) THEN Text(<<python_primitive(spec.type)>>)
    ELSE IF spec.type = "list" THEN PyList(type_spec_to_python(spec.of))
    ELSE IF spec.type = "dict"
    THEN PyDict(type_spec_to_python(spec.key), type_spec_to_python(spec.value))
    ELSE IF spec.type = "optional" THEN PyOptional(type_spec_to_python(spec.of))
    ELSE IF spec.type = "enum" THEN Text(<<"str">>)
    ELSE ValueError(<<"Unknown type spec">>)

\* the mapping of type_spec_to_json_schema
schema_primitive(type) ==
    CASE type = "int" -> [type |-> "integer"]
      [] type = "string" -> [type |-> "string"]
      [] type = "bool" -> [type |-> "boolean"]
      [] type = "float" -> [type |-> "number"]
      [] type = "datetime" -> [type |-> "string", format |-> "date-time"]
      [] type = "uuid" -> [type |-> "string", format |-> "uuid"]

\* type_spec_to_json_schema; {**inner, "nullable": True} lets the new key win
RECURSIVE type_spec_to_json_schema(_)
type_spec_to_json_schema(spec) ==
    IF IsPrimitive(spec) THEN schema_primitive(spec.type)
    ELSE IF spec.type = "list"
    THEN [type |-> "array", items |-> type_spec_to_json_schema(spec.of)]
    ELSE IF spec.type = "dict"
    THEN [type |-> "object", additionalProperties |-> type_spec_to_json_schema(spec.value)]
    ELSE IF spec.type = "optional"
    THEN [nullable |-> TRUE] @@ type_spec_to_json_schema(spec.of)
    ELSE IF spec.type = "enum"
    THEN IF IsNone(spec.default) THEN [type |-> "string", enum |-> spec.values]
         ELSE [type |-> "string", enum |-> spec.values, default |-> spec.default[1]]
    ELSE ValueError(<<"Unknown type spec">>)

\* The type documents parse_type_spec is run on

ShorthandPieces == {"int", "string", "list[", "dict[", "]", ",", " ", "foo"}

ListText(t) == <<"list[">> \o t \o <<"]">>
DictText(k, sep, v) == <<"dict[">> \o k \o sep \o v \o <<"]">>

\* the keys tried in a dict[...] shorthand: primitives, a list, a dict
ShorthandKeys ==
    {<<"int">>, <<"string">>, ListText(<<"int">>), DictText(<<"string">>, <<",">>, <<"int">>)}

\* the shorthand texts of the grammar to nesting depth d
RECURSIVE Shorthands(_)
Shorthands(d) ==
    IF d = 0 THEN {<<"int">>, <<"string">>}
    ELSE Shorthands(d - 1)
         \cup {ListText(t) : t \in Shorthands(d - 1)}
         \cup {DictText(k, sep, v) : k \in ShorthandKeys, sep \in {<<",">>, <<",", " ">>},
                                     v \in Shorthands(d - 1)}

\* a text with one piece replaced or dropped
Replaced(s, i, piece) == [s EXCEPT ![i] = piece]
Dropped(s, i) == SubSeq(s, 1, i - 1) \o SubSeq(s, i + 1, Len(s))
Garbled(s) ==
    {Replaced(s, i, piece) : i \in 1..Len(s), piece \in ShorthandPieces}
    \cup {Dropped(s, i) : i \in 1..Len(s)}

ShorthandDocs == {Text(t) : t \in UNION {Garbled(s) : s \in Shorthands(MaxDepth)}}

EnumValues == {"a", "b", "_c", "has space"}
EnumDocs ==
    LET values == UNION {[1..n -> EnumValues] : n \in 0..MaxValues} IN
    {[type |-> "enum", values |-> v] : v \in values}
    \cup {[type |-> "enum", values |-> v, default |-> d] : v \in values, d \in {"a", "c"}}

\* the leaves of the nested documents: primitives, an unknown type, a mapping
\* without "type", a string where a mapping is expected, and enums
Leaves ==
    {[type |-> "string"], [type |-> "int"], [type |-> "datetime"], [type |-> "bogus"],
     [of |-> [type |-> "int"]], Text(<<"int">>),
     [type |-> "enum", values |-> <<"a", "b">>, default |-> "a"],
     [type |-> "enum", values |-> <<"a", "b">>, default |-> "c"],
     [type |-> "enum", values |-> <<"a">>],
     [type |-> "enum", values |-> <<"a", "_c">>]}

\* the keys tried in a dict mapping
DictKeys ==
    {[type |-> "string"], [type |-> "int"], [type |-> "list", of |-> [type |-> "string"]],
     [type |-> "optional", of |-> [type |-> "string"]],
     [type |-> "enum", values |-> <<"a", "b">>], Text(<<"string">>)}

\* the mappings to nesting depth d
RECURSIVE Structured(_)
Structured(d) ==
    IF d = 0 THEN Leaves
    ELSE Structured(d - 1)
         \cup {[type |-> "list"], [type |-> "dict", key |-> [type |-> "string"]]}
         \cup {[type |-> t, of |-> x] : t \in {"list", "optional"}, x \in Structured(d - 1)}
         \cup {[type |-> "dict", key |-> k, value |-> x] : k \in DictKeys, x \in Structured(d - 1)}

TypeDocs ==
    ShorthandDocs \cup Structured(MaxDepth) \cup EnumDocs \cup {[type |-> p] : p \in PRIMITIVE_TYPES}

\* one type document and what has been done with it
NewType(data) == [data |-> data, pc |-> "raw", parsed |-> <<>>, python |-> <<>>, schema |-> <<>>]

-----------------------------------------------------------------------------
(* Idle values: the state of a component a specification does not run *)

NoCall == [called |-> FALSE, model |-> None, variant |-> None, fields |-> <<>>]
NoSchema == [done |-> FALSE, definitions |-> <<>>]
NoOpResult == [ok |-> FALSE, error |-> "unbuilt", op |-> <<>>]

IdleModelDocs ==
    /\ rawModels = <<>>
    /\ mpc = "idle"
    /\ modelsSpec = <<>>
    /\ gvf = NoCall
    /\ schema = NoSchema

NoType == NewType(<<>>)

IdleModels ==
    /\ IdleModelDocs
    /\ types = NoType

NoContexts == [protocol |-> <<>>, rest |-> <<>>, events |-> <<>>]

IdleOps ==
    /\ opData = <<>>
    /\ opResult = NoOpResult
    /\ contexts = NoContexts

NotLoaded == [done |-> FALSE, ok |-> FALSE, errors |-> <<>>, specs |-> NoSpecs, stages |-> <<>>]
EmptyRepo == [models |-> <<>>, events |-> <<>>, services |-> <<>>]

IdleLoad ==
    /\ repo = EmptyRepo
    /\ loadResult = NotLoaded

NoRun ==
    [ran |-> FALSE, rerun |-> FALSE, repo |-> EmptyRepo, exit |-> 0, ok |-> FALSE,
     errors |-> <<>>, generated |-> <<>>, outputs |-> <<>>,
     at |-> [generate |-> 0, stub |-> 0, edit |-> 0, respec |-> 0]]
NoSteps == [generate |-> 0, stub |-> 0, edit |-> 0, respec |-> 0]

IdleGen ==
    /\ fs = <<>>
    /\ lastRun = NoRun
    /\ steps = NoSteps

NoSubscriber ==
    [operation |-> <<>>, publish_on_error |-> None, handler |-> <<>>,
     pc |-> "none", message |-> 0, log |-> <<>>]
NoCall_client == NewCall("none", 0, 0)

NoRound == [start |-> <<>>, ran |-> {}, last |-> "", writers |-> <<>>]

IdleExt ==
    /\ sub = NoSubscriber
    /\ client = NoCall_client
    /\ round = NoRound

-----------------------------------------------------------------------------
(* Model specs: state machine *)

InitModels ==
    /\ rawModels \in {<<[name |-> User, spec |-> m]>> : m \in RawModelSpecs}
    /\ mpc = "raw"
    /\ modelsSpec = <<>>
    /\ gvf = NoCall
    /\ schema = NoSchema
    /\ types = NoType
    /\ IdleOps
    /\ IdleLoad
    /\ IdleGen
    /\ IdleExt

\* ModelsSpec.from_yaml with every ModelSpec's validator
ModelsFromYaml ==
    /\ mpc = "raw"
    /\ IF \A i \in 1..Len(rawModels) : validate_variant_references(rawModels[i].spec)
       THEN mpc' = "built" /\ modelsSpec' = rawModels
       ELSE mpc' = "failed" /\ modelsSpec' = <<>>
    /\ UNCHANGED <<rawModels, gvf, schema, types>>
    /\ UNCHANGED <<opVars, loadVars, genVars, extVars>>

\* a call of ModelSpec.get_variant_fields on a loaded model
GetVariantFields ==
    /\ mpc = "built"
    /\ \E i \in 1..Len(modelsSpec), variant_name \in {Create, Update, Read} :
          gvf' = [called |-> TRUE, model |-> modelsSpec[i].name, variant |-> variant_name,
                  fields |-> get_variant_fields(modelsSpec[i].spec, variant_name)]
    /\ UNCHANGED <<rawModels, mpc, modelsSpec, schema, types>>
    /\ UNCHANGED <<opVars, loadVars, genVars, extVars>>

\* a call of ModelsSpec.to_json_schema
ToJsonSchema ==
    /\ mpc = "built"
    /\ schema' = [done |-> TRUE, definitions |-> to_json_schema(modelsSpec)]
    /\ UNCHANGED <<rawModels, mpc, modelsSpec, gvf, types>>
    /\ UNCHANGED <<opVars, loadVars, genVars, extVars>>

NextModels ==
    \/ ModelsFromYaml
    \/ GetVariantFields
    \/ ToJsonSchema

SpecModels == InitModels /\ [][NextModels]_vars

-----------------------------------------------------------------------------
(* Schema definitions: state machine *)

Order == <<"Order">>

\* a model without variants and a model with a Create variant only
PlainModel ==
    [fields |-> << [name |-> "telegram_id", readonly |-> FALSE, optional |-> FALSE, default |-> "None"] >>,
     variants |-> <<>>]
CreateOnlyModel ==
    [fields |-> << [name |-> "id", readonly |-> TRUE, optional |-> FALSE, default |-> "None"],
                   [name |-> "name", readonly |-> FALSE, optional |-> TRUE, default |-> "None"] >>,
     variants |-> << [name |-> Create, exclude |-> {}, optional |-> {}] >>]

\* models.yaml documents of one or two models
ModelsDocs ==
    LET names == {User, UserCreate, Order}
        specs == {UserModel, PlainModel, CreateOnlyModel}
    IN  {<<[name |-> n, spec |-> m]>> : n \in names, m \in specs}
        \cup {d \in {<<[name |-> n1, spec |-> m1], [name |-> n2, spec |-> m2]>> :
                        n1 \in names, n2 \in names, m1 \in specs, m2 \in specs} :
                    d[1].name # d[2].name}

InitSchema ==
    /\ rawModels \in ModelsDocs
    /\ mpc = "raw"
    /\ modelsSpec = <<>>
    /\ gvf = NoCall
    /\ schema = NoSchema
    /\ types = NoType
    /\ IdleOps
    /\ IdleLoad
    /\ IdleGen
    /\ IdleExt

NextSchema ==
    \/ ModelsFromYaml
    \/ ToJsonSchema

SpecSchema == InitSchema /\ [][NextSchema]_vars

-----------------------------------------------------------------------------
(* Type system: state machine *)

InitTypes ==
    /\ types \in {NewType(data) : data \in TypeDocs}
    /\ IdleModelDocs
    /\ IdleOps
    /\ IdleLoad
    /\ IdleGen
    /\ IdleExt

\* parse_type_spec(data)
ParseTypeSpec ==
    /\ types.pc = "raw"
    /\ types' = [types EXCEPT !.pc = "parsed", !.parsed = parse_type_spec(types.data)]
    /\ UNCHANGED <<rawModels, mpc, modelsSpec, gvf, schema>>
    /\ UNCHANGED <<opVars, loadVars, genVars, extVars>>

\* type_spec_to_python(spec) on the TypeSpec parse_type_spec returned
TypeSpecToPython ==
    /\ types.pc = "parsed"
    /\ ~Raised(types.parsed)
    /\ Len(types.python) < MaxCalls
    /\ types' = [types EXCEPT !.python = Append(@, type_spec_to_python(types.parsed))]
    /\ UNCHANGED <<rawModels, mpc, modelsSpec, gvf, schema>>
    /\ UNCHANGED <<opVars, loadVars, genVars, extVars>>

\* type_spec_to_json_schema(spec) on the TypeSpec parse_type_spec returned
TypeSpecToJsonSchema ==
    /\ types.pc = "parsed"
    /\ ~Raised(types.parsed)
    /\ Len(types.schema) < MaxCalls
    /\ types' = [types EXCEPT !.schema = Append(@, type_spec_to_json_schema(types.parsed))]
    /\ UNCHANGED <<rawModels, mpc, modelsSpec, gvf, schema>>
    /\ UNCHANGED <<opVars, loadVars, genVars, extVars>>

NextTypes ==
    \/ ParseTypeSpec
    \/ TypeSpecToPython
    \/ TypeSpecToJsonSchema

SpecTypes == InitTypes /\ [][NextTypes]_vars

-----------------------------------------------------------------------------
(* Operation specs: state machine *)

InitOps ==
    /\ opData \in {Some(d) : d \in OpDatas}
    /\ opResult = NoOpResult
    /\ contexts = NoContexts
    /\ IdleModels
    /\ IdleLoad
    /\ IdleGen
    /\ IdleExt

\* OperationSpec.from_yaml(name, data)
OperationFromYaml ==
    /\ opResult = NoOpResult
    /\ opResult' = OperationSpec_from_yaml(opData[1].name, opData[1])
    /\ UNCHANGED <<opData, contexts>>
    /\ UNCHANGED <<modelVars, loadVars, genVars, extVars>>

\* OperationContextBuilder().build_for_protocol(op) on a constructed operation
BuildForProtocol ==
    /\ opResult.ok
    /\ IsNone(contexts.protocol)
    /\ contexts' = [contexts EXCEPT !.protocol = Some(build_for_protocol(opResult.op[1]))]
    /\ UNCHANGED <<opData, opResult>>
    /\ UNCHANGED <<modelVars, loadVars, genVars, extVars>>

\* OperationContextBuilder().build_for_rest(op) on a constructed operation
BuildForRest ==
    /\ opResult.ok
    /\ IsNone(contexts.rest)
    /\ contexts' = [contexts EXCEPT !.rest = Some(build_for_rest(opResult.op[1]))]
    /\ UNCHANGED <<opData, opResult>>
    /\ UNCHANGED <<modelVars, loadVars, genVars, extVars>>

\* OperationContextBuilder().build_for_events(op) on a constructed operation
BuildForEvents ==
    /\ opResult.ok
    /\ IsNone(contexts.events)
    /\ contexts' = [contexts EXCEPT !.events = Some(build_for_events(opResult.op[1]))]
    /\ UNCHANGED <<opData, opResult>>
    /\ UNCHANGED <<modelVars, loadVars, genVars, extVars>>

NextOps ==
    \/ OperationFromYaml
    \/ BuildForProtocol
    \/ BuildForRest
    \/ BuildForEvents

SpecOps == InitOps /\ [][NextOps]_vars

-----------------------------------------------------------------------------
(* Spec loader: state machine *)

InitLoad ==
    /\ repo \in Repos
    /\ loadResult = NotLoaded
    /\ IdleModels
    /\ IdleOps
    /\ IdleGen
    /\ IdleExt

\* load_specs(repo_root)
LoadSpecs ==
    /\ ~loadResult.done
    /\ loadResult' = load_specs(repo)
    /\ UNCHANGED repo
    /\ UNCHANGED <<modelVars, opVars, genVars, extVars>>

NextLoad ==
    \/ LoadSpecs

SpecLoad == InitLoad /\ [][NextLoad]_vars

-----------------------------------------------------------------------------
(* Spec loader, statement by statement: state machine *)

\* the step of load_specs that comes after the steps already run
RunStage(stage) ==
    /\ ~loadResult.done
    /\ Len(loadResult.stages) < Len(Stages)
    /\ Stages[Len(loadResult.stages) + 1] = stage
    /\ loadResult' = after_stage(loadResult, stage, stage_errors(repo, stage))
    /\ UNCHANGED repo
    /\ UNCHANGED <<modelVars, opVars, genVars, extVars>>

\* "models = load_models(models_file)" with the check that the file exists
StageModels == RunStage("models")
\* "events = load_events(events_file)"
StageEvents == RunStage("events")
\* "domains, manifests = _load_service_specs(services_dir)"
StageServices == RunStage("services")
\* "reference_errors = validate_model_references(models, domains, events)"
StageModelReferences == RunStage("model_references")
\* "consume_errors = validate_consume_references(manifests, domains)"
StageConsumeReferences == RunStage("consume_references")

\* "return AllSpecs(...)"
ReturnAllSpecs ==
    /\ ~loadResult.done
    /\ loadResult.stages = Stages
    /\ loadResult' = return_all_specs(repo, loadResult)
    /\ UNCHANGED repo
    /\ UNCHANGED <<modelVars, opVars, genVars, extVars>>

NextStages ==
    \/ StageModels
    \/ StageEvents
    \/ StageServices
    \/ StageModelReferences
    \/ StageConsumeReferences
    \/ ReturnAllSpecs

SpecStages == InitLoad /\ [][NextStages]_vars

-----------------------------------------------------------------------------
(* Generation pipeline: state machine *)

\* the paths the generators other than the controller-stub generator reported
NonStubPaths(generated) ==
    UNION {Range(generated[i].paths) :
            i \in {j \in 1..Len(generated) : generated[j].name # "Controllers"}}

InitGen ==
    /\ repo \in GenRepos
    /\ loadResult = NotLoaded
    /\ fs = <<>>
    /\ lastRun = NoRun
    /\ steps = NoSteps
    /\ IdleModels
    /\ IdleOps
    /\ IdleExt

\* what is kept of a run that started from the run record previous
RunRecord(previous, r, out) ==
    [ran |-> TRUE,
     rerun |-> previous.ran /\ previous.ok /\ previous.repo = r,
     repo |-> r,
     exit |-> out.exit,
     ok |-> out.load.ok,
     errors |-> out.load.errors,
     generated |-> out.generated,
     outputs |-> [p \in NonStubPaths(out.generated) |-> out.fs[p]],
     at |-> steps]

Ran(out) ==
    /\ fs' = out.fs
    /\ loadResult' = out.load
    /\ lastRun' = RunRecord(lastRun, repo, out)

\* generate_all(repo_root)
GenerateAll ==
    /\ steps.generate < MaxRuns
    /\ Ran(generate_all(repo, fs))
    /\ steps' = [steps EXCEPT !.generate = @ + 1]
    /\ UNCHANGED repo
    /\ UNCHANGED <<modelVars, opVars, extVars>>

Stubbed(results) == \E d \in 1..Len(results) : fs' = stub_missing_methods(results[d], fs)

\* check_controller_sync, then stub_missing_methods for one of its results
StubMissingMethods ==
    /\ steps.stub < MaxStubs
    /\ load_specs(repo).ok
    /\ Stubbed(check_controller_sync(load_specs(repo).specs, fs))
    /\ steps' = [steps EXCEPT !.stub = @ + 1]
    /\ UNCHANGED <<repo, loadResult, lastRun>>
    /\ UNCHANGED <<modelVars, opVars, extVars>>

\* a developer edits a controller file
EditController ==
    /\ steps.edit < MaxEdits
    /\ \E path \in {p \in DOMAIN fs : IsControllerPath(p)}, kind \in HandEdits :
        fs' = WriteText(fs, path, HandEdit(kind, fs[path]))
    /\ steps' = [steps EXCEPT !.edit = @ + 1]
    /\ UNCHANGED <<repo, loadResult, lastRun>>
    /\ UNCHANGED <<modelVars, opVars, extVars>>

\* a developer edits the specification documents
EditSpec ==
    /\ steps.respec < MaxRespecs
    /\ repo' \in GenRepos \ {repo}
    /\ steps' = [steps EXCEPT !.respec = @ + 1]
    /\ UNCHANGED <<loadResult, fs, lastRun>>
    /\ UNCHANGED <<modelVars, opVars, extVars>>

NextGen ==
    \/ GenerateAll
    \/ StubMissingMethods
    \/ EditController
    \/ EditSpec

SpecGen == InitGen /\ [][NextGen]_vars

-----------------------------------------------------------------------------
(* Generated subscriber: state machine *)

CoreIdle == IdleModels /\ IdleOps /\ IdleLoad /\ IdleGen
coreVars == <<modelVars, opVars, loadVars, genVars>>

InitSub ==
    /\ sub \in {NewSubscriber(op, ch) : op \in SubscribeOps, ch \in ErrorChannels}
    /\ client = NoCall_client
    /\ round = NoRound
    /\ CoreIdle

\* a message arrives on the subscribe channel and the controller method is called
Receive ==
    /\ sub.pc = "idle"
    /\ sub.message < MaxMessages
    /\ sub' = [sub EXCEPT !.pc = "in_handler", !.message = @ + 1,
                           !.log = Append(@, Event(sub.message + 1, "received",
                                                   sub.handler.subscribe_channel))]
    /\ UNCHANGED <<client, round, coreVars>>

\* the controller method returns
HandlerReturns ==
    /\ sub.pc = "in_handler"
    /\ sub' = [sub EXCEPT !.pc = after_return(sub.handler),
                           !.log = Append(@, Event(sub.message, "handled", None))]
    /\ UNCHANGED <<client, round, coreVars>>

\* the result is published on the success channel and the subscriber returns
PublishSuccess ==
    /\ sub.pc = "publish_success"
    /\ sub' = [sub EXCEPT !.pc = "idle",
                           !.log = Append(@, Event(sub.message, "published",
                                                   sub.handler.publish_on_success_channel))]
    /\ UNCHANGED <<client, round, coreVars>>

\* the controller method raises
HandlerRaises ==
    /\ sub.pc = "in_handler"
    /\ sub' = [sub EXCEPT !.pc = after_raise(sub.handler),
                           !.log = IF after_raise(sub.handler) = "idle"
                                   THEN @ \o <<Event(sub.message, "failed", None),
                                               Event(sub.message, "raised", None)>>
                                   ELSE Append(@, Event(sub.message, "failed", None))]
    /\ UNCHANGED <<client, round, coreVars>>

\* "except Exception as e": {"error": str(e)} is published on the error channel
PublishError ==
    /\ sub.pc = "publish_error"
    /\ sub' = [sub EXCEPT !.pc = "reraise",
                           !.log = Append(@, Event(sub.message, "published",
                                                   sub.handler.publish_on_error_channel))]
    /\ UNCHANGED <<client, round, coreVars>>

\* "raise" at the end of the except block
Reraise ==
    /\ sub.pc = "reraise"
    /\ sub' = [sub EXCEPT !.pc = "idle",
                           !.log = Append(@, Event(sub.message, "raised", None))]
    /\ UNCHANGED <<client, round, coreVars>>

NextSub ==
    \/ Receive
    \/ HandlerReturns
    \/ PublishSuccess
    \/ HandlerRaises
    \/ PublishError
    \/ Reraise

SpecSub == InitSub /\ [][NextSub]_vars

-----------------------------------------------------------------------------
(* HTTP clients: state machine *)

InitClient ==
    /\ client \in {NewCall(kind, max_retries, initial_delay) :
                      kind \in {"ServiceClient", "sync_user"}, max_retries \in 0..MaxRetries,
                      initial_delay \in 1..MaxDelay}
    /\ sub = NoSubscriber
    /\ round = NoRound
    /\ CoreIdle

\* ServiceClient._request is called and sends its first request
Request ==
    /\ client.kind = "ServiceClient"
    /\ client.pc = "idle"
    /\ client' = request_start(client)
    /\ UNCHANGED <<sub, round, coreVars>>

\* the request of ServiceClient._request meets its reply
RequestReply ==
    /\ client.kind = "ServiceClient"
    /\ client.pc = "awaiting"
    /\ \E reply \in Replies : client' = request_attempt(Met(client, reply), reply)
    /\ UNCHANGED <<sub, round, coreVars>>

\* _sync_user_with_backend is called and sends its first request
SyncUser ==
    /\ client.kind = "sync_user"
    /\ client.pc = "idle"
    /\ client' = sync_start(client)
    /\ UNCHANGED <<sub, round, coreVars>>

\* the request of _sync_user_with_backend meets its reply
SyncUserReply ==
    /\ client.kind = "sync_user"
    /\ client.pc = "awaiting"
    /\ \E reply \in Replies : client' = sync_attempt(Met(client, reply), reply)
    /\ UNCHANGED <<sub, round, coreVars>>

NextClient ==
    \/ Request
    \/ RequestReply
    \/ SyncUser
    \/ SyncUserReply

SpecClient == InitClient /\ [][NextClient]_vars

-----------------------------------------------------------------------------
(* The generators run one by one: state machine *)

InitOrder ==
    /\ repo \in OrderRepos
    /\ loadResult = NotLoaded
    /\ fs \in StartTrees
    /\ round = [start |-> fs, ran |-> {}, last |-> "", writers |-> <<>>]
    /\ lastRun = NoRun
    /\ steps = NoSteps
    /\ sub = NoSubscriber
    /\ client = NoCall_client
    /\ IdleModels
    /\ IdleOps

\* the paths whose text the call created or changed
Changed(before, after) ==
    {q \in DOMAIN after : q \notin DOMAIN before \/ after[q] # before[q]}

\* who has written which path so far, with the paths name wrote or reported
Written(writers, name, paths) ==
    [q \in DOMAIN writers \cup paths |->
        (IF q \in DOMAIN writers THEN writers[q] ELSE {})
        \cup (IF q \in paths THEN {name} ELSE {})]

RanGenerator(name, result) ==
    /\ fs' = result.fs
    /\ round' = [round EXCEPT
                    !.ran = @ \cup {name},
                    !.last = name,
                    !.writers = Written(@, name,
                                        Changed(fs, result.fs) \cup Range(result.generated))]

\* generator.generate() of a generator that has not run yet in this round
RunGenerator ==
    /\ loadResult.ok
    /\ Len(loadResult.specs.models) > 0
    /\ \E name \in Range(AllGenerators) \ round.ran :
            /\ RanGenerator(name, generate(name, loadResult.specs, fs))
            /\ loadResult' = [loadResult EXCEPT !.specs = specs_after(name, @)]
    /\ UNCHANGED <<repo, lastRun, steps, sub, client>>
    /\ UNCHANGED <<modelVars, opVars>>

NextOrder ==
    \/ LoadSpecs
    \/ RunGenerator

SpecOrder == InitOrder /\ [][NextOrder]_vars

-----------------------------------------------------------------------------
(* The event adapter and the registry of several services: state machine *)

InitEmit ==
    /\ repo \in EmitRepos
    /\ loadResult = NotLoaded
    /\ fs = <<>>
    /\ round = [start |-> fs, ran |-> {}, last |-> "", writers |-> <<>>]
    /\ lastRun = NoRun
    /\ steps = NoSteps
    /\ sub = NoSubscriber
    /\ client = NoCall_client
    /\ IdleModels
    /\ IdleOps

\* generate() of the named generator, once in the round
RunNamed(name) ==
    /\ loadResult.ok
    /\ name \notin round.ran
    /\ RanGenerator(name, generate(name, loadResult.specs, fs))
    /\ loadResult' = [loadResult EXCEPT !.specs = specs_after(name, @)]
    /\ UNCHANGED <<repo, lastRun, steps, sub, client>>
    /\ UNCHANGED <<modelVars, opVars>>

\* EventAdapterGenerator(...).generate()
RunEventAdapters == RunNamed("EventAdapters")

\* RegistryGenerator(...).generate()
RunRegistry == RunNamed("Registry")

NextEmit ==
    \/ LoadSpecs
    \/ RunEventAdapters
    \/ RunRegistry

SpecEmit == InitEmit /\ [][NextEmit]_vars

-----------------------------------------------------------------------------
(* Generation pipeline claims *)

\* the step is a generate_all run / a stub_missing_methods call
GenerateStep == steps'.generate = steps.generate + 1
StubStep == steps'.stub = steps.stub + 1

ControllerFiles(files) == {p \in DOMAIN files : IsControllerPath(p)}

\* the paths the controller-stub generator reported in a run
ControllersReported(run) ==
    UNION {Range(run.generated[i].paths) :
            i \in {j \in 1..Len(run.generated) : run.generated[j].name = "Controllers"}}

\* every controller file there was is still there with the same text
ControllersKept == \A p \in ControllerFiles(fs) : p \in DOMAIN fs' /\ fs'[p] = fs[p]

\* the stub generator wrote controllers only where no file was and reported
\* exactly those
OnlyAbsentWritten == ControllersReported(lastRun') = ControllerFiles(fs') \ ControllerFiles(fs)

\* C1 as stated: over generation runs and stubbing steps alike, a controller
\* file that exists before the step has the same contents after it, and the
\* stub generator writes and reports only paths that did not exist.
StubPreservation ==
    [][(GenerateStep \/ StubStep) =>
            /\ ControllersKept
            /\ GenerateStep => OnlyAbsentWritten]_vars

\* new is old right-stripped, a newline, and then nothing but method stubs
StubsAppended(old, new) ==
    LET kept == Rstrip(old) \o <<NL>> IN
    /\ Len(new) > Len(kept)
    /\ SubSeq(new, 1, Len(kept)) = kept
    /\ \A i \in (Len(kept) + 1)..Len(new) :
            new[i].k \in {"nl", "async_def", "todo", "raise_not_implemented"}
    /\ \E i \in (Len(kept) + 1)..Len(new) : new[i].k = "todo"

\* C1 amended: a generate_all run leaves every existing controller file
\* byte-identical, and its stub generator writes and reports only paths that
\* did not exist; a stubbing step creates and removes no file, leaves every
\* other file alone and changes an existing controller that has a Controller
\* class only by appending method stubs after its right-stripped contents.
StubPreservationOfGeneration ==
    [][/\ GenerateStep => ControllersKept /\ OnlyAbsentWritten
       /\ StubStep =>
            /\ DOMAIN fs' = DOMAIN fs
            /\ \A p \in DOMAIN fs :
                \/ fs'[p] = fs[p]
                \/ /\ IsControllerPath(p)
                   /\ class_found(fs[p])
                   /\ StubsAppended(fs[p], fs'[p])]_vars

HasToken(files, path, kind) ==
    path \in DOMAIN files /\ \E i \in 1..Len(files[path]) : files[path][i].k = kind

\* C1 witness: a controller whose stub bodies were implemented by hand and that
\* got a stub appended is still in place after a later successful generate_all run
StubPreservationWitness ==
    /\ lastRun.ok
    /\ lastRun.at.edit = 1
    /\ lastRun.at.stub >= 1
    /\ HasToken(fs, ControllerPath("backend", "users"), "body")
    /\ HasToken(fs, ControllerPath("backend", "users"), "todo")

AllOrNothing ==
    [][GenerateStep =>
            /\ ~lastRun'.ok =>
                    /\ fs' = fs
                    /\ lastRun'.generated = <<>>
                    /\ lastRun'.exit = 1
                    /\ lastRun'.errors # <<>>
            /\ lastRun'.ok => lastRun'.errors = <<>> /\ lastRun'.exit = 0
            /\ ~(lastRun'.errors # <<>> /\ (fs' # fs \/ lastRun'.generated # <<>>))]_vars

\* C3 witness: a run that failed in cross-validation over a file tree that an
\* earlier run had filled
AllOrNothingWitness ==
    /\ lastRun.ran
    /\ ~lastRun.ok
    /\ lastRun.errors # <<>>
    /\ "model_references" \in Range(loadResult.stages)
    /\ SchemasPath \in DOMAIN fs

-----------------------------------------------------------------------------
(* The variant field law, the optional cascade and the required-field rule *)

\* the ModelSpec a definition or a call refers to
ModelNamed(name) == Get(modelsSpec, name).spec
FieldNamed(model, fname) == Get(model.fields, fname)

\* the views of a model: None for the base model, else a declared variant
Views(model) == {None} \cup Keys(model.variants)
ViewKey(model_name, view) == IF view = None THEN model_name ELSE model_name \o view
ViewOptional(model, view) ==
    (IF view = None THEN {} ELSE Get(model.variants, view).optional)
        \cup {model.fields[i].name : i \in {j \in 1..Len(model.fields) : model.fields[j].optional}}

OptionalCascade ==
    schema.done =>
        \A i \in 1..Len(modelsSpec) :
            \A view \in Views(modelsSpec[i].spec) :
                LET def == schema.definitions[ViewKey(modelsSpec[i].name, view)] IN
                \A p \in 1..Len(def.properties) :
                    FieldNamed(modelsSpec[i].spec, def.properties[p].name).optional =>
                        /\ def.properties[p].nullable
                        /\ def.properties[p].name \notin Range(def.required)

\* C8 witness: an optional field without default, present in a variant that
\* does not list it as optional
OptionalCascadeWitness ==
    /\ schema.done
    /\ \E i \in 1..Len(modelsSpec) :
          LET M == modelsSpec[i].spec IN
          \E v \in 1..Len(M.variants), f \in 1..Len(M.fields) :
              /\ M.fields[f].optional /\ M.fields[f].default = "None"
              /\ M.fields[f].name \notin M.variants[v].optional
              /\ \E p \in 1..Len(schema.definitions[modelsSpec[i].name \o M.variants[v].name].properties) :
                    schema.definitions[modelsSpec[i].name \o M.variants[v].name].properties[p].name
                        = M.fields[f].name

\* C9: in every definition a field of the view is required iff it is not in
\* the view's optional set and has no default; the User scenario yields
\* UserCreate required {telegram_id} and UserRead required {id, telegram_id}.
RequiredFieldRule ==
    schema.done =>
        /\ \A i \in 1..Len(modelsSpec) :
              \A view \in Views(modelsSpec[i].spec) :
                  LET M == modelsSpec[i].spec
                      def == schema.definitions[ViewKey(modelsSpec[i].name, view)]
                  IN  \A p \in 1..Len(def.properties) :
                          LET fname == def.properties[p].name IN
                          fname \in Range(def.required) <=>
                              /\ fname \notin ViewOptional(M, view)
                              /\ FieldNamed(M, fname).default = "None"
        /\ modelsSpec = <<[name |-> User, spec |-> UserModel]>> =>
              /\ Names(schema.definitions[UserCreate].properties) = <<"telegram_id", "is_admin">>
              /\ schema.definitions[UserCreate].required = <<"telegram_id">>
              /\ Names(schema.definitions[User \o Read].properties) = <<"id", "telegram_id", "is_admin">>
              /\ schema.definitions[User \o Read].required = <<"id", "telegram_id">>

\* C9 witness: the schema of the User scenario was produced
RequiredFieldWitness ==
    /\ schema.done
    /\ modelsSpec = <<[name |-> User, spec |-> UserModel]>>
    /\ schema.definitions[UserCreate].required = <<"telegram_id">>

-----------------------------------------------------------------------------
(* Loader claims *)

\* the model names a repository's models.yaml defines: Model and Model+Variant
KnownNames(r) ==
    IF IsNone(r.models) THEN {}
    ELSE LET ms == r.models[1] IN
         {ms[i].name : i \in 1..Len(ms)}
         \cup UNION {{ms[i].name \o ms[i].spec.variants[j].name :
                        j \in 1..Len(ms[i].spec.variants)} : i \in 1..Len(ms)}

\* a reference with its list[...] / List[...] wrapper taken off
Inner(ref) ==
    IF Len(ref) >= 2 /\ ref[1] \in {"list[", "List["} /\ ref[Len(ref)] = "]"
    THEN SubSeq(ref, 2, Len(ref) - 1)
    ELSE ref

\* every document position of a repository: service, domain file, operation
DomainPositions(r) ==
    {<<s, f>> \in (1..Len(r.services)) \X (1..MaxDomains + 1) : f <= Len(r.services[s].domains)}
DomainFileAt(r, pos) == r.services[pos[1]].domains[pos[2]]
KeyAt(r, pos) == DomainKey(r.services[pos[1]].name, DomainFileAt(r, pos).name)
DomainKeysOf(r) == {KeyAt(r, pos) : pos \in DomainPositions(r)}
EventDatasOf(r) == IF IsNone(r.events) THEN {} ELSE Range(r.events[1])
ConsumesOf(r) ==
    UNION {IF IsNone(r.services[s].manifest) THEN {}
           ELSE {<<r.services[s].name, c>> : c \in Range(r.services[s].manifest[1].consumes)} :
           s \in 1..Len(r.services)}

\* all the reference errors the documents of a repository contain
ExpectedReferenceErrors(r) ==
    UNION {UNION {
        (IF Truthy(op.input) /\ Inner(op.input) \notin KnownNames(r)
         THEN {Err(NoDoc, "unknown_input", KeyAt(r, pos) \o <<op.name>>, op.input)} ELSE {})
        \cup
        (IF Truthy(op.output) /\ Inner(op.output) \notin KnownNames(r)
         THEN {Err(NoDoc, "unknown_output", KeyAt(r, pos) \o <<op.name>>, op.output)} ELSE {})
        : op \in Range(DomainFileAt(r, pos).operations)} : pos \in DomainPositions(r)}
    \cup
    {Err(NoDoc, "unknown_message", <<e.name>>, e.message) :
        e \in {x \in EventDatasOf(r) : Truthy(x.message) /\ x.message \notin KnownNames(r)}}
    \cup
    UNION {LET service_name == sc[1]
               c == sc[2]
               key == DomainKey(c.service[1], c.domain)
           IN  IF key \notin DomainKeysOf(r)
               THEN {Err(NoDoc, "unknown_domain", <<service_name>>, key)}
               ELSE LET pos == CHOOSE q \in DomainPositions(r) : KeyAt(r, q) = key IN
                    {Err(NoDoc, "unknown_operation", <<service_name>>, key \o <<n>>) :
                        n \in {x \in Range(c.operations) :
                                 x \notin {o.name : o \in Range(DomainFileAt(r, pos).operations)}}}
           : sc \in ConsumesOf(r)}

\* C4: once every document is loaded, one load_specs run reports all the
\* reference errors of the documents: unknown operation models, unknown event
\* message models and unknown consumed domains or operations together.
CrossValidationCompleteness ==
    (loadResult.done /\ "model_references" \in Range(loadResult.stages)) =>
        Range(loadResult.errors) = ExpectedReferenceErrors(repo)

\* the documents that are invalid on their own
InvalidDocuments(r) ==
    (IF ~IsNone(r.models) /\ ~load_models(r.models[1]).ok THEN {DocModels} ELSE {})
    \cup (IF ~load_events(r.events).ok THEN {DocEvents} ELSE {})
    \cup {DocDomain(r.services[pos[1]].name, DomainFileAt(r, pos).name) :
            pos \in {q \in DomainPositions(r) :
                        ~load_domain(r.services[q[1]].name, DomainFileAt(r, q)).ok}}
    \cup {DocManifest(r.services[s].name) :
            s \in {t \in 1..Len(r.services) :
                     /\ ~IsNone(r.services[t].manifest)
                     /\ ~load_manifest(r.services[t].name, r.services[t].manifest[1]).ok}}

\* C5: a single load reports an error for every document that is invalid on
\* its own, not only for the first one it meets.
PerDocumentErrors ==
    loadResult.done =>
        \A d \in InvalidDocuments(repo) :
            \E i \in 1..Len(loadResult.errors) : loadResult.errors[i].doc = d

\* C6: in the AllSpecs of a successful load every operation model, every
\* event message model and every consumes entry resolves.
ReferenceSoundness ==
    loadResult.ok =>
        LET S == loadResult.specs
            known == get_model_names(S.models)
        IN  /\ \A d \in 1..Len(S.domains) :
                  \A o \in 1..Len(S.domains[d].spec.operations) :
                      LET op == S.domains[d].spec.operations[o] IN
                      /\ op.input_model # None => Inner(op.input_model) \in known
                      /\ op.output_model # None => Inner(op.output_model) \in known
            /\ \A e \in 1..Len(S.events) : S.events[e].message \in known
            /\ \A m \in 1..Len(S.manifests) :
                  \A c \in 1..Len(S.manifests[m].spec.consumes) :
                      LET consume == S.manifests[m].spec.consumes[c]
                          key == DomainKey(consume.service, consume.domain)
                      IN  /\ HasKey(S.domains, key)
                          /\ Range(consume.operations)
                                \subseteq Keys(Get(S.domains, key).spec.operations)

-----------------------------------------------------------------------------
(* Operation validity *)

\* C10: constructing an OperationSpec succeeds iff at least one transport is
\* configured and, when events.subscribe is set, input_model is set.
OperationValidity ==
    opResult # NoOpResult =>
        LET d == opData[1]
            eventsOk == ~IsNone(d.events) /\ events_validate_at_least_one(d.events[1])
            hasTransport == ~IsNone(d.rest) \/ eventsOk
            subscribes == eventsOk /\ Truthy(d.events[1].subscribe)
        IN  opResult.ok <=>
                /\ hasTransport
                /\ (IsNone(d.events) \/ eventsOk)
                /\ (subscribes => Truthy(d.input))

-----------------------------------------------------------------------------
(* Context builder claims *)

\* the contexts the entry points called so far have returned
ReturnedBy == {k \in {"protocol", "rest", "events"} :
                ~IsNone(contexts[k]) /\ ~Raised(contexts[k][1])}

\* what every generator reads of an operation whatever its transport
SharedFields(ctx) ==
    [name |-> ctx.name,
     params |-> [i \in 1..Len(ctx.params) |->
                    [name |-> ctx.params[i].name, type |-> ctx.params[i].type]],
     input_model |-> ctx.input_model,
     output_model |-> ctx.output_model,
     return_type |-> ctx.return_type,
     computed_return_type |-> computed_return_type(ctx),
     imports |-> ctx.imports]

RestUnset(ctx) == ctx.http_method = "None" /\ ctx.path = None /\ ctx.status_code = StatusNone
EventsUnset(ctx) == ctx.subscribe_channel = None /\ ctx.publish_channel = None

-----------------------------------------------------------------------------
(* Generated subscriber claims *)

\* the positions in the log of what the subscriber did for a message
EventsOf(message, what) ==
    {i \in 1..Len(sub.log) : sub.log[i].message = message /\ sub.log[i].what = what}

\* the handling of the message is over
Handled(message) == message < sub.message \/ (message = sub.message /\ sub.pc = "idle")

-----------------------------------------------------------------------------
(* Client retry claims *)

ClientError(reply) ==
    /\ reply.error = "none"
    /\ BAD_REQUEST <= reply.status /\ reply.status < INTERNAL_SERVER_ERROR

\* a connection failure or a 5xx response
Transient(reply) ==
    \/ reply.error = "ConnectError"
    \/ reply.error = "none" /\ reply.status >= INTERNAL_SERVER_ERROR

\* what the client takes for success: any status below 400 for ServiceClient,
\* 201 Created for the bot helper
Succeeds(reply) ==
    /\ reply.error = "none"
    /\ IF client.kind = "ServiceClient" THEN ~is_error(reply.status)
       ELSE reply.status = CREATED

SuccessOutcome ==
    /\ client.outcome.how = "returned"
    /\ client.outcome.what = (IF client.kind = "ServiceClient" THEN "response" ELSE "True")

\* the replies the call has met, the attempts it has made, the sleeps it took
Attempts == Cardinality({i \in 1..Len(client.trace) : client.trace[i] = "attempt"})
Sleeps == Len(client.sleeps)

\* C14 as stated: a call that has met a 4xx response has made exactly one
\* attempt, has not slept and is over.
NoRetryOn4xx ==
    (\E i \in 1..Len(client.replies) : ClientError(client.replies[i])) =>
        /\ client.pc = "done"
        /\ Attempts = 1
        /\ Sleeps = 0

\* C14: the attempt that meets a 4xx response is the last one: the call is
\* over with a failure (409 aside in the bot helper), no sleep and no attempt
\* follows it; when the first reply is a 4xx the call has made exactly one
\* attempt and has not slept at all.
NoRetryAfter4xx ==
    \A i \in 1..Len(client.replies) :
        ClientError(client.replies[i]) =>
            /\ i = Len(client.replies)
            /\ client.pc = "done"
            /\ Attempts = i
            /\ Sleeps = i - 1
            /\ client.trace[Len(client.trace)] = "attempt"
            /\ ~SuccessOutcome
            /\ client.kind = "ServiceClient" =>
                    client.outcome = Raising("HTTPStatusError", client.replies[i].status)
            /\ (client.kind = "sync_user" /\ client.replies[i].status # CONFLICT) =>
                    client.outcome = Returned("None", client.replies[i].status)

\* C14 witness: with max_retries 3, a 404 was the first reply of a ServiceClient
\* request, which raised after one attempt
NoRetryAfter4xxWitness ==
    /\ client.kind = "ServiceClient"
    /\ client.max_retries = 3
    /\ client.replies = <<Response(404)>>
    /\ client.pc = "done"
    /\ client.outcome.how = "raised"

\* C15: a call makes at most max_retries attempts; a connection failure or a
\* 5xx before the last allowed attempt is followed by another attempt; the
\* first successful attempt ends the call with success, and max_retries
\* transient failures in a row end it with the last exception raised
\* (ServiceClient) or None returned (bot helper).
BoundedTransientRetry ==
    /\ Attempts <= client.max_retries
    /\ Len(client.replies) <= Attempts
    /\ Len(client.replies) = client.max_retries => client.pc \in {"idle", "done"}
    /\ \A i \in 1..Len(client.replies) :
            /\ (Transient(client.replies[i]) /\ i < client.max_retries) =>
                    (i < Len(client.replies) \/ client.pc = "awaiting")
            /\ Succeeds(client.replies[i]) =>
                    /\ i = Len(client.replies)
                    /\ Attempts = i
                    /\ client.pc = "done"
                    /\ SuccessOutcome
    /\ (client.pc = "done" /\ SuccessOutcome) =>
            /\ Len(client.replies) >= 1
            /\ Succeeds(client.replies[Len(client.replies)])
    /\ (/\ client.max_retries >= 1
        /\ Len(client.replies) = client.max_retries
        /\ \A i \in 1..Len(client.replies) : Transient(client.replies[i])) =>
            /\ client.pc = "done"
            /\ IF client.kind = "ServiceClient"
               THEN LET last == client.replies[Len(client.replies)]
                    IN  client.outcome =
                            (IF last.error = "none"
                             THEN Raising("HTTPStatusError", last.status)
                             ELSE Raising("ConnectError", 0))
               ELSE client.outcome = Returned("None", 0)

\* C15 witness: a ServiceClient request with max_retries 3 met a 503, a
\* connection failure and a 500, slept twice and raised the last exception
BoundedTransientRetryWitness ==
    /\ client.kind = "ServiceClient"
    /\ client.replies = <<Response(503), TransportError("ConnectError"),
                          Response(INTERNAL_SERVER_ERROR)>>
    /\ client.sleeps = <<1, 2>>
    /\ client.outcome = Raising("HTTPStatusError", INTERNAL_SERVER_ERROR)

\* C16: whichever client meets a 409 response ends the call at once by
\* returning a conflict outcome, which is neither its success outcome nor a
\* failure (an exception raised, or None).
ConflictOutcome ==
    \A i \in 1..Len(client.replies) :
        (client.replies[i].error = "none" /\ client.replies[i].status = CONFLICT) =>
            /\ i = Len(client.replies)
            /\ client.pc = "done"
            /\ client.outcome.how = "returned"
            /\ client.outcome.what \notin {"None", "response", "True"}

-----------------------------------------------------------------------------
(* Missing specification documents *)

\* C17: loading a repository without models.yaml returns an empty AllSpecs
\* and no error, and validate_specs_cli reports success with "No specs found".
MissingSpecsGraceful ==
    (loadResult.done /\ IsNone(repo.models)) =>
        /\ loadResult.ok
        /\ loadResult.errors = <<>>
        /\ loadResult.specs = NoSpecs
        /\ validate_specs_cli(repo).success
        /\ validate_specs_cli(repo).message = "No specs found"

-----------------------------------------------------------------------------
(* Generator order *)

\* the generators that ran, in the order generate_all lists them
Listed(names) == SelectSeq(AllGenerators, LAMBDA n : n \in names)

-----------------------------------------------------------------------------
(* The loaded specifications *)

-----------------------------------------------------------------------------
(* Variant references *)

\* the names the variants of a model exclude or mark optional that are no
\* field of the model
Dangling(model) ==
    UNION {model.variants[i].exclude \cup model.variants[i].optional : i \in 1..Len(model.variants)}
    \ {model.fields[j].name : j \in 1..Len(model.fields)}

\* C20: constructing the models fails exactly when a variant of the document
\* names a field its model does not have, so every ModelSpec that exists has
\* exclude and optional within its fields for all its variants, and what
\* get_variant_fields and to_json_schema hand to the generators names fields
\* of the model only
VariantReferencesChecked ==
    /\ mpc = "failed" => \E i \in 1..Len(rawModels) : Dangling(rawModels[i].spec) # {}
    /\ mpc = "built" => \A i \in 1..Len(rawModels) : Dangling(rawModels[i].spec) = {}
    /\ \A i \in 1..Len(modelsSpec) :
            \A v \in 1..Len(modelsSpec[i].spec.variants) :
                /\ modelsSpec[i].spec.variants[v].exclude \subseteq Keys(modelsSpec[i].spec.fields)
                /\ modelsSpec[i].spec.variants[v].optional \subseteq Keys(modelsSpec[i].spec.fields)
    /\ gvf.called => Keys(gvf.fields) \subseteq Keys(Get(modelsSpec, gvf.model).spec.fields)

\* C20 witness: the construction of a model whose only dangling name is in a
\* variant's optional list has failed and no ModelSpec exists
VariantReferencesCheckedWitness ==
    /\ mpc = "failed"
    /\ modelsSpec = <<>>
    /\ \E v \in 1..Len(rawModels[1].spec.variants) :
            Ghost \in rawModels[1].spec.variants[v].optional
    /\ \A v \in 1..Len(rawModels[1].spec.variants) :
            rawModels[1].spec.variants[v].exclude \subseteq Keys(rawModels[1].spec.fields)

-----------------------------------------------------------------------------
(* Type system claims *)

\* an enum with fewer than two values, a repeated value, a value that is no
\* identifier, or a default outside its values
IllFormedEnum(values, default) ==
    \/ Len(values) < 2
    \/ \E i, j \in 1..Len(values) : i # j /\ values[i] = values[j]
    \/ \E i \in 1..Len(values) : ~isidentifier(values[i])
    \/ ~IsNone(default) /\ default[1] \notin Range(values)

\* a TypeSpec all of whose enums and dicts, at every depth, are well formed
RECURSIVE WellFormed(_)
WellFormed(spec) ==
    CASE spec.type = "enum" -> ~IllFormedEnum(spec.values, spec.default)
      [] spec.type = "dict" -> /\ spec.key.type \in PRIMITIVE_TYPES
                               /\ WellFormed(spec.value)
      [] spec.type \in {"list", "optional"} -> WellFormed(spec.of)
      [] OTHER -> spec.type \in PRIMITIVE_TYPES

\* a mapping that holds, at some depth, an ill-formed enum or a dict whose key
\* is a mapping of another type than a primitive
RECURSIVE Violates(_)
Violates(data) ==
    IF IsStr(data) \/ "type" \notin DOMAIN data THEN FALSE
    ELSE \/ /\ data.type = "enum"
            /\ "values" \in DOMAIN data
            /\ IllFormedEnum(data.values,
                             IF "default" \in DOMAIN data THEN Some(data.default) ELSE <<>>)
         \/ /\ data.type = "dict"
            /\ "key" \in DOMAIN data
            /\ ~IsStr(data.key)
            /\ "type" \in DOMAIN data.key
            /\ data.key.type \notin PRIMITIVE_TYPES
         \/ \E f \in DOMAIN data \cap {"of", "key", "value"} : Violates(data[f])

\* C21: every TypeSpec parse_type_spec returns is well formed at every depth
\* (enums with two or more unique identifier values and a default among
\* them, dicts with a primitive key), and every document that breaks one of
\* these rules at any depth is rejected
TypeSpecWellFormed ==
    types.pc = "parsed" =>
        /\ ~Raised(types.parsed) => WellFormed(types.parsed)
        /\ Violates(types.data) => Raised(types.parsed)

\* C21 witness: a list of a dict whose key is a list has been rejected
TypeSpecWellFormedWitness ==
    /\ types.pc = "parsed"
    /\ types.data = [type |-> "list",
                     of |-> [type |-> "dict",
                             key |-> [type |-> "list", of |-> [type |-> "string"]],
                             value |-> [type |-> "string"]]]
    /\ Raised(types.parsed)

\* the shorthand text of a TypeSpec that has no enum and no optional in it
RECURSIVE Shorthand(_)
Shorthand(spec) ==
    CASE spec.type = "list" -> ListText(Shorthand(spec.of))
      [] spec.type = "dict" -> DictText(Shorthand(spec.key), <<",">>, Shorthand(spec.value))
      [] OTHER -> <<spec.type>>

Unspaced(text) == SelectSeq(text, LAMBDA piece : piece # " ")

\* C22: on every TypeSpec parse_type_spec returns, type_spec_to_python and
\* type_spec_to_json_schema return a result and return the same result on
\* every call; a shorthand is accepted only as the type it spells, never as a
\* default type
TypeRoundTrip ==
    types.pc = "parsed" =>
        /\ \A i \in 1..Len(types.python) :
                ~Raised(types.python[i]) /\ types.python[i] = types.python[1]
        /\ \A i \in 1..Len(types.schema) :
                ~Raised(types.schema[i]) /\ types.schema[i] = types.schema[1]
        /\ IsStr(types.data) /\ ~Raised(types.parsed) =>
                Unspaced(Shorthand(types.parsed)) = Unspaced(types.data.text)

\* C22 witness: a nested shorthand has been parsed and each renderer called twice
TypeRoundTripWitness ==
    /\ types.data = Text(<<"dict[", "string", ",", " ", "list[", "int", "]", "]">>)
    /\ types.pc = "parsed"
    /\ ~Raised(types.parsed)
    /\ Len(types.python) = MaxCalls
    /\ Len(types.schema) = MaxCalls
    /\ types.python[1] = Text(<<"dict[", "str", ",", " ", "list[", "int", "]", "]">>)
    /\ types.schema[1] = [type |-> "object",
                          additionalProperties |-> [type |-> "array", items |-> [type |-> "integer"]]]

-----------------------------------------------------------------------------
(* Schema definitions *)

\* the bare models and the (model, variant) pairs of the loaded models:
\* <<i, 0>> is model i itself, <<i, j>> its j-th variant
SchemaPairs(models) ==
    {<<i, j>> : i \in 1..Len(models), j \in 0..MaxVariants} \cap
    UNION {{<<i, j>> : j \in 0..Len(models[i].spec.variants)} : i \in 1..Len(models)}

PairVariant(models, pair) ==
    IF pair[2] = 0 THEN None ELSE models[pair[1]].spec.variants[pair[2]].name

PairKey(models, pair) ==
    IF pair[2] = 0 THEN models[pair[1]].name
    ELSE models[pair[1]].name \o PairVariant(models, pair)

\* C23: to_json_schema emits one definition for each bare model and one for
\* each (model, variant) pair, under the key Model+Variant: the keys are
\* get_model_names(), there are as many definitions as pairs, and the
\* definition found under a pair's key is the schema of that pair
SchemaDefinitions ==
    schema.done =>
        /\ DOMAIN schema.definitions = get_model_names(modelsSpec)
        /\ Cardinality(DOMAIN schema.definitions) = Cardinality(SchemaPairs(modelsSpec))
        /\ \A pair \in SchemaPairs(modelsSpec) :
                schema.definitions[PairKey(modelsSpec, pair)] =
                    model_to_schema(modelsSpec[pair[1]].name, modelsSpec[pair[1]].spec,
                                    PairVariant(modelsSpec, pair))

-----------------------------------------------------------------------------
(* Loader stage order *)

\* the steps in the order the claim gives them
ClaimedOrder == <<"models", "events", "services", "model_references", "consume_references">>

\* the reported model-reference errors name operations first, events after
OperationsBeforeEvents(errors) ==
    \A i, j \in 1..Len(errors) :
        errors[i].kind = "unknown_message" /\ errors[j].kind \in {"unknown_input", "unknown_output"}
            => j < i

\* C24: load_specs enters its stages in the order models, events, domains and
\* manifests, model references (operations, then events), consumes, and
\* returns AllSpecs only after all of them; a stage that fails ends the load
\* as failed, with no later stage entered and no AllSpecs
LoaderStageOrder ==
    [][/\ loadResult.done => loadResult' = loadResult
       /\ loadResult' # loadResult =>
            /\ SubSeq(loadResult'.stages, 1, Len(loadResult.stages)) = loadResult.stages
            /\ Len(loadResult'.stages) = Len(loadResult.stages) + 1
            /\ \A k \in 1..Len(loadResult'.stages) :
                    IF k <= Len(ClaimedOrder) THEN loadResult'.stages[k] = ClaimedOrder[k]
                    ELSE loadResult'.stages[k] = "return" /\ loadResult'.ok
            /\ loadResult'.ok => loadResult'.done /\ Len(loadResult'.stages) = Len(ClaimedOrder) + 1
            /\ ~loadResult'.ok => loadResult'.specs = NoSpecs
            /\ loadResult'.done /\ ~loadResult'.ok => loadResult'.errors # <<>>
            /\ ~loadResult'.done => loadResult'.errors = <<>>
            /\ OperationsBeforeEvents(loadResult'.errors)
            /\ loadResult'.done => loadResult' = load_specs(repo)
            /\ ~loadResult'.done =>
                    SubSeq(load_specs(repo).stages, 1, Len(loadResult'.stages)) = loadResult'.stages
                    /\ Len(load_specs(repo).stages) > Len(loadResult'.stages)
      ]_vars

\* C24 witness: the load has failed in the model-reference stage, after the
\* documents were read, reporting an operation and an event, and the consumes
\* were never checked though a manifest consumes an unknown domain
LoaderStageOrderWitness ==
    /\ loadResult.done
    /\ ~loadResult.ok
    /\ loadResult.stages = <<"models", "events", "services", "model_references">>
    /\ \E i, j \in 1..Len(loadResult.errors) :
            /\ loadResult.errors[i].kind = "unknown_output"
            /\ loadResult.errors[j].kind = "unknown_message"
    /\ stage_errors(repo, "consume_references") # <<>>

-----------------------------------------------------------------------------
(* Exponential backoff *)

\* C25: the k-th wait of a call lasts initial_delay * 2^(k-1); attempts and
\* waits alternate, beginning and ending with an attempt, so there is one
\* wait between two consecutive attempts and none after the last; there are
\* at most max_retries - 1 waits, and the attempt that meets a 4xx or a
\* success is followed by no wait
ExponentialBackoff ==
    /\ \A k \in 1..Len(client.sleeps) :
            client.sleeps[k] = client.initial_delay * 2^(k - 1)
    /\ \A i \in 1..Len(client.trace) :
            client.trace[i] = (IF i % 2 = 1 THEN "attempt" ELSE "sleep")
    /\ Len(client.trace) > 0 => client.trace[Len(client.trace)] = "attempt"
    /\ Sleeps = (IF Attempts = 0 THEN 0 ELSE Attempts - 1)
    /\ Attempts <= client.max_retries
    /\ \A i \in 1..Len(client.replies) :
            (ClientError(client.replies[i]) \/ Succeeds(client.replies[i])) =>
                /\ i = Len(client.replies)
                /\ Sleeps = i - 1
                /\ client.pc = "done"
    /\ client.pc = "done" => Sleeps <= Len(client.replies)

\* C25 witness: with initial_delay 2 and max_retries 3, three transient
\* failures in a row were met with waits of 2 and 4 and no wait after the third
ExponentialBackoffWitness ==
    /\ client.kind = "ServiceClient"
    /\ client.initial_delay = 2
    /\ client.max_retries = 3
    /\ Len(client.replies) = 3
    /\ \A i \in 1..3 : Transient(client.replies[i])
    /\ client.sleeps = <<2, 4>>
    /\ client.trace = <<"attempt", "sleep", "attempt", "sleep", "attempt">>
    /\ client.pc = "done"

-----------------------------------------------------------------------------
(* What the event adapter and the registry are emitted for *)

\* the operation has events.subscribe set
Subscribing(op) == ~IsNone(op.events) /\ Truthy(op.events[1].subscribe)

\* the operations of the service's domains, as <<domain, operation>> positions
ServiceOps(specs, service) ==
    UNION {{<<d, o>> : o \in 1..Len(specs.domains[d].spec.operations)} :
             d \in {k \in 1..Len(specs.domains) : ServiceOf(specs.domains[k].name) = service}}

OpAt(specs, pos) == specs.domains[pos[1]].spec.operations[pos[2]]

SubscribersOf(specs, service) == {pos \in ServiceOps(specs, service) : Subscribing(OpAt(specs, pos))}

\* the subscriber bindings of a generated event adapter, by position in the text
BindingsIn(text) == {i \in 1..Len(text) : text[i].k = "subscriber"}

\* the bindings of the text that bind the operation's name to its channel
BoundAs(text, op) ==
    {i \in BindingsIn(text) : text[i].n = <<op.name>> /\ text[i].a[1] = op.events[1].subscribe}

SameBinding(a, b) == a.name = b.name /\ a.events[1].subscribe = b.events[1].subscribe

-----------------------------------------------------------------------------
(* What the registry wires *)

\* the domains of the service that have a REST operation, by position
RestDomainsOf(specs, service) ==
    {d \in 1..Len(specs.domains) :
        /\ ServiceOf(specs.domains[d].name) = service
        /\ \E op \in Range(specs.domains[d].spec.operations) : ~IsNone(op.rest)}

\* the routers a generated registry includes, and its import line
RoutersIn(text) == {i \in 1..Len(text) : text[i].k = "include_router"}
ImportsIn(text) == {i \in 1..Len(text) : text[i].k = "import"}

-----------------------------------------------------------------------------
(* List wrappers *)

\* a model name: text without a piece of a wrapper
WrapperPieces == {"list[", "List[", "]"}
IsModelName(s) == Len(s) > 0 /\ \A i \in 1..Len(s) : s[i] \notin WrapperPieces

\* the output is "list[" or "List[", a model name, "]"
IsListWrapper(s) ==
    /\ Len(s) >= 3
    /\ s[1] \in {"list[", "List["}
    /\ s[Len(s)] = "]"
    /\ IsModelName(SubSeq(s, 2, Len(s) - 1))

\* the contexts built so far of the constructed operation
BuiltContexts ==
    {c[1] : c \in {contexts.protocol, contexts.rest, contexts.events} \ {<<>>}}

\* C28: of a constructed operation response_many is true exactly when the
\* output is a list wrapper around a model name; base_output_model is then the
\* inner name and otherwise the output itself; the return type computed from a
\* built context wraps a model name, and extract_base_model of the output is
\* the same inner name
ListWrappersAgree ==
    opResult.ok /\ Truthy(opResult.op[1].output_model) =>
        /\ response_many(opResult.op[1]) <=> IsListWrapper(opResult.op[1].output_model)
        /\ base_output_model(opResult.op[1])
                = IF response_many(opResult.op[1])
                  THEN SubSeq(opResult.op[1].output_model, 2,
                              Len(opResult.op[1].output_model) - 1)
                  ELSE opResult.op[1].output_model
        /\ extract_base_model(opResult.op[1].output_model) = base_output_model(opResult.op[1])
        /\ \A c \in BuiltContexts :
                ~Raised(c) /\ c.response_many =>
                    /\ IsModelName(c.output_model)
                    /\ computed_return_type(c) = ListOf(c.output_model)

-----------------------------------------------------------------------------
(* Effective status *)

\* the status the configuration is to answer with
StatusOf(rest) ==
    CASE rest.status # StatusNone -> rest.status
      [] rest.status = StatusNone /\ rest.method = "POST" -> 201
      [] rest.status = StatusNone /\ rest.method = "DELETE" -> 204
      [] OTHER -> 200

-----------------------------------------------------------------------------
(* Controller sync converges *)

IsPrefixOf(a, b) == Len(a) <= Len(b) /\ SubSeq(b, 1, Len(a)) = a

\* the controller file is there and has a line of a Controller class
HasControllerClass(files, path) == Exists(files, path) /\ class_found(Rstrip(files[path]))

\* the results of check_controller_sync on the documents and the tree
Checked(files) == check_controller_sync(load_specs(repo).specs, files)

\* stub_missing_methods applied to every result of a check of the tree
Converged(files) ==
    \A d \in 1..Len(Checked(files)) :
        /\ is_synced(Checked(files)[d])
        /\ stub_missing_methods(Checked(files)[d], files) = files

\* C30: a stub_missing_methods call on the result of check_controller_sync
\* changes nothing when the controller file is missing or has no Controller
\* class; otherwise a new check reports nothing missing, a second call
\* changes nothing, and the old text is a prefix of the new text
ControllerSyncConverges ==
    [][StubStep =>
        \A d \in 1..Len(Checked(fs)) :
            fs' = stub_missing_methods(Checked(fs)[d], fs) =>
                IF HasControllerClass(fs, Checked(fs)[d].controller_path)
                THEN /\ is_synced(Checked(fs')[d])
                     /\ stub_missing_methods(Checked(fs')[d], fs') = fs'
                     /\ IsPrefixOf(fs[Checked(fs)[d].controller_path],
                                   fs'[Checked(fs)[d].controller_path])
                ELSE fs' = fs]_vars

====
